---- MODULE Spec2Model ----
(***************************************************************************)
(* Sentinair event pipeline: the Alert Manager, the Anomaly Scorer with    *)
(* its persistence, and the Engine's drain loop, as state machines.        *)
(*                                                                         *)
(* Time is a clock reading `now` in clock quanta: time.time() and          *)
(* datetime.now() return the same reading until the clock advances.        *)
(* Confidence values are percentages (0.7 is 70).                          *)
(***************************************************************************)
EXTENDS Integers, Sequences, FiniteSets, TLC

\* ------------------------------------------------------------------ bounds
MaxTime == 4
MaxCreates == 3
MaxAlertsPerHour == 2
MaxTrains == 2
MaxSaves == 2
MaxEvents == 2
MaxStarts == 1
MaxTrainingRounds == 1
MaxOps == 3
MaxCallbacks == 2
MaxRuns == 2
MaxReports == 1
MaxAnalysed == 3
MaxCreators == 2
MaxDevices == 2
MaxChanges == 3
MaxInputs == 3

\* --------------------------------------------------------- program constants
Hour == 2
HistoryMaxlen == 1000
Day == 24 * Hour
AnomalyThreshold == 70
MinTrainSamples == 10
MinTrainingSamples == 1000
TrainingInterval == 24 * Hour
Rejected == -1

SeverityThreshold == "medium"

EventTypes == {"file_access", "test_alert"}
Severities == {"low", "medium", "high", "critical"}
EngineConfidences == {50, 80, 90}
DirectSeverities == {"low", "medium"}
DirectConfidences == {80}
\* the confidences _calculate_severity is tried on, in percent
ConfidenceValues == 0..100

\* feature vectors, by name
Vectors == {1, 2}
\* what a train call is given: the number of samples, and whether they are
\* rows of numbers ("2d") or bare numbers ("1d")
TrainInputs == {[n |-> 9, shape |-> "2d"], [n |-> 10, shape |-> "2d"],
                [n |-> 10, shape |-> "1d"]}
ModelTypes == {"isolation_forest", "one_class_svm"}

VARIABLES
  now,               \* the clock reading
  active_alerts,     \* AlertManager.active_alerts
  alert_history,     \* AlertManager.alert_history (deque, maxlen 1000)
  alert_timestamps,  \* AlertManager.alert_timestamps: event type -> deque of times
  alert_stats,       \* AlertManager.alert_stats
  creates,           \* number of create_alert calls made so far
  last_create,       \* the last create_alert call: its input, its result, and what
                     \* the history held for its event type in the hour before it
  notification_callbacks, \* AlertManager.notification_callbacks
  notified,          \* the callbacks the last create_alert call invoked, in order
  last_op,           \* the last acknowledge, mark_false_positive or cleanup call
  sev                \* the last two _calculate_severity calls: input and result

VARIABLES
  model_type,        \* AnomalyDetector.model_type, from the configuration
  model,             \* AnomalyDetector.model: the object's generation, and whether it is fitted
  scaler,            \* AnomalyDetector.scaler: likewise
  is_trained_flag,   \* AnomalyDetector.is_trained_flag
  training_history,  \* AnomalyDetector.training_history
  train,             \* the thread in train(): position, input, result
  pred,              \* the thread in predict(): position, input, what it read, result
  load,              \* the thread in load_model(), called by start(): position, result
  symlink_ok,        \* whether os.symlink works on this platform
  files,             \* data/models: the timestamped files, by kind and timestamp
  latest,            \* data/models: the latest_*.pkl entries, by kind
  save,              \* the thread in save_model(): position, timestamp, result
  fresh,             \* a second AnomalyDetector, which only loads
  running,           \* SentinairEngine.running
  event_queue,       \* SentinairEngine.event_queue
  events,            \* number of events the monitors have reported
  loops,             \* the threads running _process_events: position and batch
  processing_thread, \* SentinairEngine.processing_thread
  stop,              \* the thread in stop(): position, and the queue it found
  fates,             \* what became of the queued events at each stop() so far
  stored,            \* the events handed to db_manager.insert_event
  trainers,          \* the threads running _periodic_training: position, current_time
  training_thread,   \* SentinairEngine.training_thread
  last_training_time,\* SentinairEngine.last_training_time
  db_events,         \* the events the database held when the process began
  cycle,             \* the last retraining cycle that ended: what it did, and
                     \* last_training_time before and after it
  monitor,           \* one polling monitor: running, monitor_thread, the threads
                     \* running _monitor_loop, the thread in stop(), the threads
                     \* of runs that stop() has returned for, and whether one of
                     \* those has reported an event since
  taken,             \* for each reported event, by id: the number of snapshots of
                     \* the queue it has been copied into
  feat,              \* the last _extract_features call: the event and the result
  conv,              \* the last two _convert_anomaly_score calls: score and result
  creators,          \* the threads in create_alert, step by step: position, the
                     \* alert, and current_time of _check_rate_limit
  accepted,          \* the alerts those threads had accepted: event type, and
                     \* the current_time _check_rate_limit gave them
  encrypt_logs,      \* security.encrypt_logs, from the configuration
  behavior,          \* the behavior monitor: callback, running, is_idle, whether
                     \* last_activity_time is more than the idle threshold ago,
                     \* the number of idle_periods, the position of its
                     \* _monitor_loop thread and of the two input listeners, and
                     \* the calls of _generate_behavior_event so far
  usb                \* the USB monitor: callback, running, known_devices, the
                     \* position of its _monitor_loop thread with the sets of one
                     \* round, the devices that are connected, the calls of
                     \* _handle_device_event so far, and where the thread that
                     \* calls start and stop of the engine is

\* the calls that are tried on their own: the last calls of two functions,
\* and the threads that are in create_alert together; and the configuration
\* of the engine, which no step changes
callVars == <<feat, conv, creators, accepted, encrypt_logs, behavior, usb>>

\* the retraining scheduler's variables
schedVars == <<trainers, training_thread, last_training_time, db_events, cycle>>

\* the Engine's variables
engineOwnVars == <<running, event_queue, events, loops, processing_thread, stop,
                   fates, stored, schedVars, monitor, taken>>

engineVars == <<engineOwnVars, callVars>>

diskVars == <<symlink_ok, files, latest, load>>

scorerVars == <<model_type, model, scaler, is_trained_flag, training_history>>

alertVars == <<active_alerts, alert_history, alert_timestamps, alert_stats,
               creates, last_create, notification_callbacks, notified, last_op, sev>>

\* the Alert Manager's own variables
managerVars == <<active_alerts, alert_history, alert_timestamps, alert_stats,
                 creates, last_create, notification_callbacks, notified, last_op>>

\* everything outside the Alert Manager and the clock
otherVars == <<scorerVars, train, pred, diskVars, save, fresh, engineVars>>

vars == <<now, alertVars, scorerVars, train, pred, diskVars, save, fresh, engineVars>>

\* ------------------------------------------------------------ Alert Manager

NoCall == [event_type |-> "none", severity |-> "none", confidence |-> 0,
           at |-> 0, ret |-> Rejected, in_window |-> 0, via |-> "none"]

\* no acknowledge, mark_false_positive or cleanup call yet; `n` counts the calls
\* `arg` is the alert id or the number of days, `ok` the boolean and `count`
\* the number the call returned, `at` the clock reading at the call, `again`
\* whether the alert the call found was acknowledged already
NoOp == [op |-> "none", arg |-> 0, ok |-> FALSE, count |-> 0, n |-> 0, at |-> 0,
         again |-> FALSE]

NoSeverityCall == [confidence |-> 0, severity |-> "low",
                   earlier |-> [confidence |-> 0, severity |-> "low"]]

SeverityLevel(s) ==
  CASE s = "low" -> 1
    [] s = "medium" -> 2
    [] s = "high" -> 3
    [] s = "critical" -> 4
    [] OTHER -> 1

ShouldCreateAlertAlways(alert) == TRUE

\* AlertManager._should_create_alert
ShouldCreateAlert(alert) ==
  SeverityLevel(alert.severity) >= SeverityLevel(SeverityThreshold)

CalculateSeverityStrict(confidence) ==
  IF confidence > 90 THEN "critical"
  ELSE IF confidence > 80 THEN "high"
  ELSE IF confidence > 70 THEN "medium"
  ELSE "low"

\* SentinairEngine._calculate_severity
CalculateSeverity(confidence) ==
  IF confidence >= 90 THEN "critical"
  ELSE IF confidence >= 80 THEN "high"
  ELSE IF confidence >= 70 THEN "medium"
  ELSE "low"

RECURSIVE DropOld(_, _)
DropOldInclusive(q, hour_ago) ==
  IF q # <<>> /\ Head(q) <= hour_ago THEN DropOld(Tail(q), hour_ago) ELSE q

\* the while loop of _check_rate_limit: pop from the left while the head is
\* older than one hour
DropOld(q, hour_ago) ==
  IF q # <<>> /\ Head(q) < hour_ago THEN DropOld(Tail(q), hour_ago) ELSE q

\* int(time.time() * 1000000): the id is the clock reading
AlertId(t) == t

\* datetime.isoformat(): a string
IsoFormat(t) == [type |-> "str", at |-> t]

\* a datetime object, as datetime.now() - timedelta(...) gives
DateTime(t) == [type |-> "datetime", at |-> t]

\* the key is not in the dictionary
Missing == [type |-> "missing", at |-> 0]

\* a >= b is defined for two strings and for two datetimes; for a string
\* against a datetime Python raises TypeError
CanCompare(a, b) == a.type = b.type

GreaterEq(a, b) == a.at >= b.at

NewAlertDefaultSeverity(alert_data, t) ==
  [id |-> AlertId(t),
   timestamp |-> IsoFormat(t),
   event_type |-> alert_data.event_type,
   severity |-> "medium",
   confidence |-> alert_data.confidence,
   acknowledged |-> FALSE,
   false_positive |-> FALSE,
   acknowledged_at |-> Missing,
   created_at |-> t,
   via |-> alert_data.via]

\* the alert dictionary create_alert builds from alert_data; `via` is not a
\* field of the program: it records which caller made the call. The timestamp
\* is a string: a datetime is converted with isoformat(), and the engine
\* passes event.timestamp.isoformat()
NewAlert(alert_data, t) ==
  [id |-> AlertId(t),
   timestamp |-> IsoFormat(t),
   event_type |-> alert_data.event_type,
   severity |-> alert_data.severity,
   confidence |-> alert_data.confidence,
   acknowledged |-> FALSE,
   false_positive |-> FALSE,
   acknowledged_at |-> Missing,
   created_at |-> t,
   via |-> alert_data.via]

HistoryAppendUnbounded(h, a) == Append(h, a)

\* deque(maxlen=1000).append
HistoryAppend(h, a) ==
  IF Len(h) >= HistoryMaxlen THEN Append(Tail(h), a) ELSE Append(h, a)

UpdateStatistics(stats, alert) ==
  [stats EXCEPT !.total_alerts = @ + 1,
                !.alerts_by_severity[alert.severity] = @ + 1,
                !.alerts_by_type[alert.event_type] = @ + 1]

\* the accepted alerts of one event type created in the hour up to t
InWindow(h, etype, t) ==
  Cardinality({i \in 1..Len(h) : h[i].event_type = etype /\ h[i].created_at >= t - Hour})

CallRecord(alert_data, ret) ==
  [event_type |-> alert_data.event_type, severity |-> alert_data.severity,
   confidence |-> alert_data.confidence, at |-> now, ret |-> ret,
   in_window |-> InWindow(alert_history, alert_data.event_type, now),
   via |-> alert_data.via]

\* a callback call: which callback, with which alert
Invocation(callback, alert) == [callback |-> callback.name, alert |-> alert.id]

RECURSIVE SendNotificationsUntilRaise(_, _)
SendNotificationsUntilRaise(callbacks, alert) ==
  IF callbacks = <<>> THEN <<>>
  ELSE IF Head(callbacks).raises THEN <<Invocation(Head(callbacks), alert)>>
  ELSE <<Invocation(Head(callbacks), alert)>>
         \o SendNotificationsUntilRaise(Tail(callbacks), alert)

\* _send_notifications: the callbacks are called in list order, each inside
\* its own try, so one that raises does not end the loop
SendNotifications(callbacks, alert) ==
  [i \in 1..Len(callbacks) |-> Invocation(callbacks[i], alert)]

\* what `notified` holds after a create_alert call: the callbacks that were
\* registered at the call, and the calls made to them
Notified(invoked) == [registered |-> notification_callbacks, invoked |-> invoked]

\* AlertManager.create_alert, with _should_create_alert, _check_rate_limit,
\* _update_statistics and _send_notifications
CreateAlert(alert_data) ==
  LET alert == NewAlert(alert_data, now)
      etype == alert.event_type
      kept == DropOld(alert_timestamps[etype], now - Hour)
  IN /\ creates' = creates + 1
     /\ UNCHANGED <<notification_callbacks, last_op, sev>>
     /\ IF ~ShouldCreateAlert(alert)
        THEN /\ last_create' = CallRecord(alert_data, Rejected)
             /\ notified' = Notified(<<>>)
             /\ UNCHANGED <<active_alerts, alert_history, alert_timestamps, alert_stats>>
        ELSE IF Len(kept) >= MaxAlertsPerHour
        THEN /\ alert_timestamps' = [alert_timestamps EXCEPT ![etype] = kept]
             /\ last_create' = CallRecord(alert_data, Rejected)
             /\ notified' = Notified(<<>>)
             /\ UNCHANGED <<active_alerts, alert_history, alert_stats>>
        ELSE /\ alert_timestamps' = [alert_timestamps EXCEPT ![etype] = Append(kept, now)]
             /\ active_alerts' = Append(active_alerts, alert)
             /\ alert_history' = HistoryAppend(alert_history, alert)
             /\ alert_stats' = UpdateStatistics(alert_stats, alert)
             /\ notified' = Notified(SendNotifications(notification_callbacks, alert))
             /\ last_create' = CallRecord(alert_data, alert.id)

\* SentinairEngine._generate_alert: the severity is computed from the confidence
GenerateAlertData(etype, confidence) ==
  [event_type |-> etype, severity |-> CalculateSeverity(confidence),
   confidence |-> confidence, via |-> "engine"]

\* a create_alert call from the engine pipeline
EngineCreate ==
  /\ creates < MaxCreates
  /\ \E etype \in EventTypes, c \in EngineConfidences :
       CreateAlert(GenerateAlertData(etype, c))
  /\ UNCHANGED <<now, scorerVars, train, pred, diskVars, save, fresh, engineVars>>

\* a create_alert call from another caller, which supplies its own fields
DirectCreate ==
  /\ creates < MaxCreates
  /\ \E etype \in EventTypes, s \in DirectSeverities, c \in DirectConfidences :
       CreateAlert([event_type |-> etype, severity |-> s, confidence |-> c,
                    via |-> "direct"])
  /\ UNCHANGED <<now, scorerVars, train, pred, diskVars, save, fresh, engineVars>>

MatchesAny(alert, alert_id) == TRUE

\* if alert['id'] == alert_id
Matches(alert, alert_id) == alert.id = alert_id

FirstUnacknowledgedWithId(alert_id) ==
  LET found == {i \in 1..Len(active_alerts) :
                  Matches(active_alerts[i], alert_id) /\ ~active_alerts[i].acknowledged}
  IN IF found = {} THEN 0 ELSE CHOOSE i \in found : \A j \in found : i <= j

\* the index of the first alert of the active list with the id, 0 when no
\* alert has it: the for loop of acknowledge_alert and mark_false_positive
\* returns at the first match
FirstWithId(alert_id) ==
  LET found == {i \in 1..Len(active_alerts) : Matches(active_alerts[i], alert_id)}
  IN IF found = {} THEN 0 ELSE CHOOSE i \in found : \A j \in found : i <= j

OpRecord(op, arg, ok, count) ==
  [op |-> op, arg |-> arg, ok |-> ok, count |-> count, n |-> last_op.n + 1,
   at |-> now,
   again |-> op # "cleanup" /\ ok /\ active_alerts[FirstWithId(arg)].acknowledged]

AcknowledgedToggle(alert, t) ==
  [alert EXCEPT !.acknowledged = ~@, !.acknowledged_at = IsoFormat(t)]

\* what acknowledge_alert sets in the alert it found
Acknowledged(alert, t) ==
  [alert EXCEPT !.acknowledged = TRUE, !.acknowledged_at = IsoFormat(t)]

MarkedFalsePositiveOnly(alert, t) ==
  [alert EXCEPT !.false_positive = TRUE]

\* what mark_false_positive sets in the alert it found
MarkedFalsePositive(alert, t) ==
  [alert EXCEPT !.false_positive = TRUE, !.acknowledged = TRUE,
                !.acknowledged_at = IsoFormat(t)]

\* AlertManager.acknowledge_alert
AcknowledgeAlert(alert_id) ==
  LET i == FirstWithId(alert_id)
  IN /\ active_alerts' =
          IF i = 0 THEN active_alerts
          ELSE [active_alerts EXCEPT ![i] = Acknowledged(@, now)]
     /\ last_op' = OpRecord("acknowledge", alert_id, i # 0, 0)
     /\ UNCHANGED <<alert_history, alert_timestamps, alert_stats, creates,
                    last_create, notification_callbacks, notified>>

FalsePositiveCountTwice(stats) == [stats EXCEPT !.false_positives = @ + 2]

\* self.alert_stats['false_positives'] += 1
FalsePositiveCount(stats) == [stats EXCEPT !.false_positives = @ + 1]

\* AlertManager.mark_false_positive
MarkFalsePositive(alert_id) ==
  LET i == FirstWithId(alert_id)
  IN /\ active_alerts' =
          IF i = 0 THEN active_alerts
          ELSE [active_alerts EXCEPT ![i] = MarkedFalsePositive(@, now)]
     /\ alert_stats' = IF i = 0 THEN alert_stats ELSE FalsePositiveCount(alert_stats)
     /\ last_op' = OpRecord("mark_false_positive", alert_id, i # 0, 0)
     /\ UNCHANGED <<alert_history, alert_timestamps, creates,
                    last_create, notification_callbacks, notified>>

\* alert.get('acknowledged_at', alert['timestamp'])
AckTime(alert) ==
  IF alert.acknowledged_at = Missing THEN alert.timestamp ELSE alert.acknowledged_at

CleanupKeepsRecent(alert, cutoff_time) == GreaterEq(AckTime(alert), cutoff_time)

\* the condition of the list comprehension in cleanup_old_alerts
CleanupKeeps(alert, cutoff_time) ==
  ~alert.acknowledged \/ GreaterEq(AckTime(alert), cutoff_time)

\* whether the list comprehension raises: `or` evaluates the comparison for
\* an acknowledged alert only
CleanupRaises(alerts, cutoff_time) ==
  \E i \in 1..Len(alerts) :
    alerts[i].acknowledged /\ ~CanCompare(AckTime(alerts[i]), cutoff_time)

\* AlertManager.cleanup_old_alerts: an exception leaves the list as it was
\* and makes the call return 0
CleanupOldAlerts(days) ==
  LET cutoff_time == DateTime(now - days * Day)
      kept == SelectSeq(active_alerts, LAMBDA a : CleanupKeeps(a, cutoff_time))
  IN /\ IF CleanupRaises(active_alerts, cutoff_time)
        THEN /\ UNCHANGED active_alerts
             /\ last_op' = OpRecord("cleanup", days, FALSE, 0)
        ELSE /\ active_alerts' = kept
             /\ last_op' = OpRecord("cleanup", days, TRUE,
                                    Len(active_alerts) - Len(kept))
     /\ UNCHANGED <<alert_history, alert_timestamps, alert_stats, creates,
                    last_create, notification_callbacks, notified>>

RECURSIVE InsertNewestFirst(_, _)
\* where a stable sort on the timestamp, reverse=True, puts one more alert:
\* behind every alert that is as new or newer
InsertNewestFirst(sorted, a) ==
  IF sorted = <<>> THEN <<a>>
  ELSE IF GreaterEq(Head(sorted).timestamp, a.timestamp)
  THEN <<Head(sorted)>> \o InsertNewestFirst(Tail(sorted), a)
  ELSE <<a>> \o sorted

RECURSIVE SortNewestFirst(_)
\* alerts.sort(key=lambda x: x['timestamp'], reverse=True)
SortNewestFirst(alerts) ==
  IF alerts = <<>> THEN <<>>
  ELSE InsertNewestFirst(SortNewestFirst(SubSeq(alerts, 1, Len(alerts) - 1)),
                         alerts[Len(alerts)])

\* AlertManager.get_active_alerts; severity_filter "none" stands for None
GetActiveAlerts(severity_filter) ==
  SortNewestFirst(SelectSeq(active_alerts,
    LAMBDA a : /\ ~a.acknowledged
               /\ severity_filter # "none" => a.severity = severity_filter))

\* AlertManager.get_recent_alerts: the comparison of an alert's timestamp
\* with cutoff_time raises for the first alert of the history, and the call
\* returns the empty list of its except clause
GetRecentAlerts(hours) ==
  LET cutoff_time == DateTime(now - hours * Hour)
  IN IF \E i \in 1..Len(alert_history) :
          ~CanCompare(alert_history[i].timestamp, cutoff_time)
     THEN <<>>
     ELSE SortNewestFirst(SelectSeq(alert_history,
            LAMBDA a : GreaterEq(a.timestamp, cutoff_time)))

\* the windows get_recent_alerts is called with, in hours
RecentHours == {1, 24}

\* an id that no alert has: the clock starts at 1
UnknownId == 0

\* the ids the calls are made with: those of the alerts in the active list
\* and in the history, and one that no alert has
AlertIds ==
  {active_alerts[i].id : i \in 1..Len(active_alerts)}
    \cup {alert_history[i].id : i \in 1..Len(alert_history)}
    \cup {UnknownId}

\* the day counts cleanup is called with
CleanupDays == {0, 7}

\* a create_alert call for a test alert of medium severity, as the
\* repository's test makes
TestCreate ==
  /\ creates < MaxCreates
  /\ CreateAlert([event_type |-> "test_alert", severity |-> "medium",
                  confidence |-> 80, via |-> "direct"])
  /\ UNCHANGED <<now, otherVars>>

\* the threads that call create_alert at the same time
Creators == 1..MaxCreators

NoAlertData == [event_type |-> "none", severity |-> "none", confidence |-> 0,
                via |-> "none"]

NoCreator == [pc |-> "idle", alert_data |-> NoAlertData,
              alert |-> NewAlert(NoAlertData, 0), current_time |-> 0]

\* what the steps of create_alert before the lock leave alone
CreatorLeaves ==
  UNCHANGED <<active_alerts, alert_history, alert_stats, notification_callbacks,
              last_op, sev, accepted>>

\* create_alert up to the rate limiting check: the alert is built, and a
\* severity below the threshold ends the call with -1
CreateBegin(c) ==
  /\ creators[c].pc = "idle"
  /\ creates < MaxCreates
  /\ creates' = creates + 1
  /\ \E etype \in EventTypes, s \in DirectSeverities, conf \in DirectConfidences :
       LET alert_data == [event_type |-> etype, severity |-> s,
                          confidence |-> conf, via |-> "direct"]
           alert == NewAlert(alert_data, now)
       IN IF ~ShouldCreateAlert(alert)
          THEN /\ last_create' = CallRecord(alert_data, Rejected)
               /\ notified' = Notified(<<>>)
               /\ UNCHANGED creators
          ELSE /\ creators' = [creators EXCEPT ![c] =
                                 [pc |-> "rate", alert_data |-> alert_data,
                                  alert |-> alert, current_time |-> 0]]
               /\ UNCHANGED <<last_create, notified>>
  /\ UNCHANGED alert_timestamps
  /\ CreatorLeaves

\* _check_rate_limit up to the test: current_time = datetime.now(), and the
\* timestamps older than one hour are popped
RateClean(c) ==
  /\ creators[c].pc = "rate"
  /\ LET etype == creators[c].alert.event_type
     IN alert_timestamps' =
          [alert_timestamps EXCEPT ![etype] = DropOld(@, now - Hour)]
  /\ creators' = [creators EXCEPT ![c].pc = "test", ![c].current_time = now]
  /\ UNCHANGED <<creates, last_create, notified>>
  /\ CreatorLeaves

\* if len(self.alert_timestamps[alert_type]) >= self.max_alerts_per_hour:
\* return False, and create_alert returns -1
RateTest(c) ==
  /\ creators[c].pc = "test"
  /\ IF Len(alert_timestamps[creators[c].alert.event_type]) >= MaxAlertsPerHour
     THEN /\ creators' = [creators EXCEPT ![c] = NoCreator]
          /\ last_create' = CallRecord(creators[c].alert_data, Rejected)
          /\ notified' = Notified(<<>>)
     ELSE /\ creators' = [creators EXCEPT ![c].pc = "append"]
          /\ UNCHANGED <<last_create, notified>>
  /\ UNCHANGED <<creates, alert_timestamps>>
  /\ CreatorLeaves

\* self.alert_timestamps[alert_type].append(current_time); return True
RateAppend(c) ==
  /\ creators[c].pc = "append"
  /\ LET etype == creators[c].alert.event_type
     IN alert_timestamps' =
          [alert_timestamps EXCEPT ![etype] = Append(@, creators[c].current_time)]
  /\ creators' = [creators EXCEPT ![c].pc = "commit"]
  /\ UNCHANGED <<creates, last_create, notified>>
  /\ CreatorLeaves

\* with self.alert_lock: the alert goes to the active list and the history
\* and is counted; then the notifications, and the id is returned
CreateCommit(c) ==
  /\ creators[c].pc = "commit"
  /\ LET alert == creators[c].alert
     IN /\ active_alerts' = Append(active_alerts, alert)
        /\ alert_history' = HistoryAppend(alert_history, alert)
        /\ alert_stats' = UpdateStatistics(alert_stats, alert)
        /\ notified' = Notified(SendNotifications(notification_callbacks, alert))
        /\ last_create' = CallRecord(creators[c].alert_data, alert.id)
        /\ accepted' = Append(accepted, [event_type |-> alert.event_type,
                                         at |-> creators[c].current_time])
  /\ creators' = [creators EXCEPT ![c] = NoCreator]
  /\ UNCHANGED <<creates, alert_timestamps, notification_callbacks, last_op, sev>>

\* one step of a thread in create_alert
CreateStep(c) ==
  /\ \/ CreateBegin(c)
     \/ RateClean(c)
     \/ RateTest(c)
     \/ RateAppend(c)
     \/ CreateCommit(c)
  /\ UNCHANGED <<now, scorerVars, train, pred, diskVars, save, fresh,
                 engineOwnVars, feat, conv, encrypt_logs, behavior, usb>>

Acknowledge ==
  /\ last_op.n < MaxOps
  /\ \E alert_id \in AlertIds : AcknowledgeAlert(alert_id)
  /\ UNCHANGED <<now, sev, otherVars>>

FalsePositive ==
  /\ last_op.n < MaxOps
  /\ \E alert_id \in AlertIds : MarkFalsePositive(alert_id)
  /\ UNCHANGED <<now, sev, otherVars>>

Cleanup ==
  /\ last_op.n < MaxOps
  /\ \E days \in CleanupDays : CleanupOldAlerts(days)
  /\ UNCHANGED <<now, sev, otherVars>>

\* the callbacks that get registered: one raises when called, one does not
Callbacks == {[name |-> "a", raises |-> TRUE], [name |-> "b", raises |-> FALSE]}

\* AlertManager.add_notification_callback
AddNotificationCallback ==
  /\ Len(notification_callbacks) < MaxCallbacks
  /\ \E callback \in Callbacks :
       notification_callbacks' = Append(notification_callbacks, callback)
  /\ UNCHANGED <<active_alerts, alert_history, alert_timestamps, alert_stats,
                 creates, last_create, notified, last_op>>
  /\ UNCHANGED <<now, sev, otherVars>>

\* a _calculate_severity call; the call before it is kept for comparison
CalculateSeverityCall ==
  /\ \E c \in ConfidenceValues :
       sev' = [confidence |-> c, severity |-> CalculateSeverity(c),
               earlier |-> [confidence |-> sev.confidence, severity |-> sev.severity]]
  /\ UNCHANGED <<now, managerVars, otherVars>>

\* the clock advances
Tick ==
  /\ now < MaxTime
  /\ now' = now + 1
  /\ UNCHANGED <<alertVars, scorerVars, train, pred, diskVars, save, fresh, engineVars>>

AlertInit ==
  /\ active_alerts = <<>>
  /\ alert_history = <<>>
  /\ alert_timestamps = [t \in EventTypes |-> <<>>]
  /\ alert_stats = [total_alerts |-> 0,
                    alerts_by_severity |-> [s \in Severities |-> 0],
                    alerts_by_type |-> [t \in EventTypes |-> 0],
                    false_positives |-> 0]
  /\ creates = 0
  /\ last_create = NoCall
  /\ notification_callbacks = <<>>
  /\ notified = [registered |-> <<>>, invoked |-> <<>>]
  /\ last_op = NoOp
  /\ sev = NoSeverityCall

\* an Alert Manager that has accepted n alerts before the clock reading 1, one
\* in each clock quantum, the two event types taking turns, none acknowledged
EarlierType(t) == IF t % 2 = 0 THEN "file_access" ELSE "test_alert"

EarlierAlert(t) ==
  NewAlert([event_type |-> EarlierType(t), severity |-> "medium",
            confidence |-> 80, via |-> "direct"], t)

\* the alerts accepted at the clock readings -n .. -1, oldest first
EarlierAlerts(n) == [i \in 1..n |-> EarlierAlert(i - n - 1)]

\* the numbers of alerts accepted before: the history is full, or one or two
\* short of full
EarlierCounts == {HistoryMaxlen - 2, HistoryMaxlen - 1, HistoryMaxlen}

\* the state create_alert leaves after those n calls; `creates` counts the
\* calls made from here on
AlertInitAfter(n) ==
  /\ active_alerts = EarlierAlerts(n)
  /\ alert_history = EarlierAlerts(n)
  /\ alert_timestamps =
       [t \in EventTypes |->
          IF EarlierType(-1) = t THEN <<-3, -1>> ELSE <<-4, -2>>]
  /\ alert_stats =
       [total_alerts |-> n,
        alerts_by_severity |-> [s \in Severities |-> IF s = "medium" THEN n ELSE 0],
        alerts_by_type |->
          [t \in EventTypes |->
             Cardinality({i \in 1..n : EarlierType(i - n - 1) = t})],
        false_positives |-> 0]
  /\ creates = 0
  /\ last_create = NoCall
  /\ notification_callbacks = <<>>
  /\ notified = [registered |-> <<>>, invoked |-> <<>>]
  /\ last_op = NoOp
  /\ sev = NoSeverityCall

\* ----------------------------------------------------------- Anomaly Scorer

\* None
NoObject == [kind |-> "none", gen |-> 0, fitted |-> FALSE]

TrainIdle == [pc |-> "idle", calls |-> 0, n |-> 0, shape |-> "none", gen |-> 0,
              ret |-> "none",
              before |-> [model |-> NoObject, scaler |-> NoObject, flag |-> FALSE]]

PredIdle == [pc |-> "idle", x |-> 0, trained |-> FALSE, scaler |-> NoObject,
             model1 |-> NoObject, model2 |-> NoObject, ret |-> <<FALSE, 0>>]

\* AnomalyDetector.is_trained
IsTrainedOf(flag, m, sc) == flag /\ m # NoObject /\ sc # NoObject

IsTrained == IsTrainedOf(is_trained_flag, model, scaler)

\* what the fitted model of generation m answers for vector x scaled by the
\* scaler of generation s (model.decision_function), in hundredths: the
\* library's numbers are not modelled, each (model, scaler, vector) has one
ScoreTable == <<-120, -80, -20, 0, 20, 80, 120>>

DecisionScore(m, s, x) == ScoreTable[((m + 2 * s + 6 * x) % 7) + 1]

\* model.predict: -1 for an outlier
Prediction(m, s, x) == IF DecisionScore(m, s, x) < 0 THEN -1 ELSE 1

Clip(v, lo, hi) == IF v < lo THEN lo ELSE IF v > hi THEN hi ELSE v

ConvertAnomalyScoreUninverted(score) == (Clip(score, -100, 100) + 100) \div 2

\* AnomalyDetector._convert_anomaly_score, in hundredths
ConvertAnomalyScore(score) == (Clip(-score, -100, 100) + 100) \div 2

\* the result of predict from the scaler it transformed with, the model it
\* called predict on and the model it called decision_function on; an
\* unfitted object raises, and predict returns (False, 0.0)
PredictOutcome(sc, m1, m2, x) ==
  IF ~sc.fitted \/ ~m1.fitted \/ ~m2.fitted
  THEN <<FALSE, 0>>
  ELSE <<Prediction(m1.gen, sc.gen, x) = -1,
         ConvertAnomalyScore(DecisionScore(m2.gen, sc.gen, x))>>

\* a whole predict call on a scorer nobody else is changing
PredictOf(flag, m, sc, x) ==
  IF ~IsTrainedOf(flag, m, sc) THEN <<FALSE, 0>> ELSE PredictOutcome(sc, m, m, x)

TooFewSamplesOffByOne(n) == n < MinTrainSamples - 1

\* len(features) < 10
TooFewSamples(n) == n < MinTrainSamples

TrainReturn(ret) == [train EXCEPT !.pc = "idle", !.ret = ret]

\* train(features): up to self.scaler = StandardScaler()
TrainBegin(features) ==
  /\ train.pc = "idle"
  /\ LET t == [train EXCEPT !.calls = @ + 1, !.n = features.n,
                            !.shape = features.shape,
                            !.gen = train.calls + 1, !.ret = "none",
                            !.before = [model |-> model, scaler |-> scaler,
                                        flag |-> is_trained_flag]]
     IN IF TooFewSamples(features.n)
        THEN /\ train' = [t EXCEPT !.ret = "False"]
             /\ UNCHANGED scaler
        ELSE /\ train' = [t EXCEPT !.pc = "scaler_fit"]
             /\ scaler' = [kind |-> "scaler", gen |-> t.gen, fitted |-> FALSE]
  /\ UNCHANGED <<model_type, model, is_trained_flag, training_history>>

\* a train call with any of the inputs
TrainCall ==
  /\ train.calls < MaxTrains
  /\ \E features \in TrainInputs : TrainBegin(features)

\* X_scaled = self.scaler.fit_transform(X): raises unless X is two-dimensional
TrainScalerFit ==
  /\ train.pc = "scaler_fit"
  /\ IF train.shape = "1d"
     THEN /\ train' = TrainReturn("False")
          /\ UNCHANGED scaler
     ELSE /\ train' = [train EXCEPT !.pc = "model_new"]
          /\ scaler' = [scaler EXCEPT !.fitted = TRUE]
  /\ UNCHANGED <<model_type, model, is_trained_flag, training_history>>

\* self.model = IsolationForest(...), or ValueError for another model type
TrainModelNew ==
  /\ train.pc = "model_new"
  /\ IF model_type = "isolation_forest"
     THEN /\ train' = [train EXCEPT !.pc = "model_fit"]
          /\ model' = [kind |-> "model", gen |-> train.gen, fitted |-> FALSE]
     ELSE /\ train' = TrainReturn("False")
          /\ UNCHANGED model
  /\ UNCHANGED <<model_type, scaler, is_trained_flag, training_history>>

\* self.model.fit(X_scaled), which may raise
TrainModelFit ==
  /\ train.pc = "model_fit"
  /\ \/ /\ train' = [train EXCEPT !.pc = "finish"]
        /\ model' = [model EXCEPT !.fitted = TRUE]
     \/ /\ train' = TrainReturn("False")
        /\ UNCHANGED model
  /\ UNCHANGED <<model_type, scaler, is_trained_flag, training_history>>

\* self.is_trained_flag = True, the training_history entry, return True
TrainFinish ==
  /\ train.pc = "finish"
  /\ is_trained_flag' = TRUE
  /\ training_history' = Append(training_history, train.gen)
  /\ train' = TrainReturn("True")
  /\ UNCHANGED <<model_type, model, scaler>>

TrainStep ==
  \/ TrainCall
  \/ TrainScalerFit
  \/ TrainModelNew
  \/ TrainModelFit
  \/ TrainFinish

\* predict(): the is_trained() test
PredictCall ==
  /\ pred.pc = "idle"
  /\ \E x \in Vectors :
       pred' = IF IsTrained
               THEN [PredIdle EXCEPT !.pc = "scale", !.x = x, !.trained = TRUE]
               ELSE [PredIdle EXCEPT !.x = x]

\* X_scaled = self.scaler.transform(X)
PredictScale ==
  /\ pred.pc = "scale"
  /\ pred' = [pred EXCEPT !.scaler = scaler,
                          !.pc = IF scaler.fitted THEN "predict" ELSE "idle"]

\* prediction = self.model.predict(X_scaled)[0]
PredictModel ==
  /\ pred.pc = "predict"
  /\ pred' = [pred EXCEPT !.model1 = model,
                          !.pc = IF model.fitted THEN "score" ELSE "idle"]

\* anomaly_score = self.model.decision_function(X_scaled)[0], and the return
PredictScore ==
  /\ pred.pc = "score"
  /\ pred' = [pred EXCEPT !.model2 = model, !.pc = "idle",
                          !.ret = PredictOutcome(pred.scaler, pred.model1, model, pred.x)]

PredictStep ==
  \/ PredictCall
  \/ PredictScale
  \/ PredictModel
  \/ PredictScore

\* -------------------------------------------------------- model persistence

Kinds == {"model", "scaler", "metadata"}

\* the order in which save_model writes, removes and links the three files
KindOrder == <<"model", "scaler", "metadata">>

\* self.model_dir = 'data/models': a path relative to the working directory
ModelDir == <<"data", "models">>

\* a file that does not exist; `of` is the model and the scaler that the
\* scorer held when save_model wrote the file: the generation it belongs to
NoFile == [of |-> <<NoObject, NoObject>>, data |-> NoObject]

\* os.path.join(self.model_dir, f"..._{timestamp}.pkl"), one for each kind
ModelPath(k, ts) == [dir |-> ModelDir, name |-> <<k, ts>>]

Absent == [type |-> "absent", target |-> ModelPath("none", 0), content |-> NoFile]

SaveIdle == [pc |-> "idle", k |-> 0, ts |-> 0, seq |-> 0, ret |-> "none",
             done |-> 0, model |-> NoObject, scaler |-> NoObject]

FreshScorer == [ret |-> "none", model |-> NoObject, scaler |-> NoObject,
                flag |-> FALSE, training_history |-> <<>>,
                model_of |-> NoFile.of, scaler_of |-> NoFile.of, after |-> 0]

\* os.makedirs(self.model_dir) makes the only directory there is
DirExists(dir) == dir = ModelDir

\* the file at a path: the timestamped files all lie in the model directory
FileAt(path) ==
  IF path.dir = ModelDir /\ path.name[1] \in Kinds
  THEN files[path.name[1]][path.name[2]]
  ELSE NoFile

\* where the symlink latest_*.pkl leads: os.symlink stored the text of a
\* relative path, and the file system resolves a relative link target against
\* the directory that holds the link, not against the working directory
ResolveLink(k) ==
  [dir |-> ModelDir \o latest[k].target.dir, name |-> latest[k].target.name]

\* what opening a latest_*.pkl entry reads: a symlink is followed
ReadLatest(k) ==
  IF latest[k].type = "link"
  THEN FileAt(ResolveLink(k))
  ELSE latest[k].content

\* os.path.exists on a latest_*.pkl entry: false for a symlink that leads nowhere
LatestExists(k) ==
  /\ latest[k].type # "absent"
  /\ ReadLatest(k) # NoFile

\* what joblib.dump / pickle.dump writes for each kind
DumpData(k) ==
  CASE k = "model" -> model
    [] k = "scaler" -> scaler
    [] k = "metadata" -> training_history

SaveAdvance(next) ==
  IF save.k < Len(KindOrder)
  THEN [save EXCEPT !.k = @ + 1]
  ELSE IF next = "idle"
  THEN [save EXCEPT !.pc = "idle", !.k = 0, !.ret = "True", !.done = @ + 1]
  ELSE [save EXCEPT !.pc = next, !.k = 1]

\* save_model(): the is_trained() test and the timestamp
SaveCall ==
  /\ save.pc = "idle"
  /\ train.pc = "idle"
  /\ save.seq < MaxSaves
  /\ save' = IF IsTrained
             THEN [save EXCEPT !.pc = "dump", !.k = 1, !.ts = now, !.seq = @ + 1,
                               !.ret = "none", !.model = model, !.scaler = scaler]
             ELSE [save EXCEPT !.seq = @ + 1, !.ret = "False",
                               !.model = model, !.scaler = scaler]
  /\ UNCHANGED <<files, latest>>

\* joblib.dump(self.model, model_path), then the scaler, then the metadata
SaveDump ==
  /\ save.pc = "dump"
  /\ files' = [files EXCEPT ![KindOrder[save.k]][save.ts] =
                 [of |-> <<save.model, save.scaler>>,
                  data |-> DumpData(KindOrder[save.k])]]
  /\ save' = SaveAdvance("remove")
  /\ UNCHANGED latest

\* if os.path.exists(path): os.remove(path), for each latest_*.pkl entry
SaveRemove ==
  /\ save.pc = "remove"
  /\ latest' = IF LatestExists(KindOrder[save.k])
               THEN [latest EXCEPT ![KindOrder[save.k]] = Absent]
               ELSE latest
  /\ save' = SaveAdvance("link")
  /\ UNCHANGED files

\* os.symlink for each entry; it raises OSError where symlinks do not work and
\* where the entry is still there (FileExistsError), and then all three
\* entries are copied instead
SaveLink ==
  /\ save.pc = "link"
  /\ IF symlink_ok /\ latest[KindOrder[save.k]].type = "absent"
     THEN /\ latest' = [latest EXCEPT ![KindOrder[save.k]] =
                          [type |-> "link",
                           target |-> ModelPath(KindOrder[save.k], save.ts),
                           content |-> NoFile]]
          /\ save' = SaveAdvance("idle")
     ELSE /\ save' = [save EXCEPT !.pc = "copy", !.k = 1]
          /\ UNCHANGED latest
  /\ UNCHANGED files

\* shutil.copy2 for each entry: it opens the destination for writing, which
\* follows a symlink and raises when the directory the link leads to is missing
SaveCopy ==
  /\ save.pc = "copy"
  /\ LET k == KindOrder[save.k]
         src == FileAt(ModelPath(k, save.ts))
         dst == ResolveLink(k)
     IN IF latest[k].type # "link"
        THEN /\ latest' = [latest EXCEPT ![k] =
                             [type |-> "copy", target |-> ModelPath(k, save.ts),
                              content |-> src]]
             /\ save' = SaveAdvance("idle")
             /\ UNCHANGED files
        ELSE IF DirExists(dst.dir)
        THEN /\ files' = [files EXCEPT ![dst.name[1]][dst.name[2]] = src]
             /\ save' = SaveAdvance("idle")
             /\ UNCHANGED latest
        ELSE /\ save' = [save EXCEPT !.pc = "idle", !.k = 0, !.ret = "False"]
             /\ UNCHANGED <<files, latest>>

\* the step save_model is at raises, or the process is interrupted there:
\* save_model returns False and the files stay as they are
SaveFail ==
  /\ save.pc # "idle"
  /\ save' = [save EXCEPT !.pc = "idle", !.k = 0, !.ret = "False"]
  /\ UNCHANGED <<files, latest>>

SaveStep ==
  \/ SaveCall
  \/ SaveDump
  \/ SaveRemove
  \/ SaveLink
  \/ SaveCopy
  \/ SaveFail

\* load_model() on the files as they are now
LoadModel ==
  IF ~(LatestExists("model") /\ LatestExists("scaler"))
  THEN [FreshScorer EXCEPT !.ret = "False"]
  ELSE [ret |-> "True",
        model |-> ReadLatest("model").data,
        scaler |-> ReadLatest("scaler").data,
        flag |-> TRUE,
        training_history |-> IF LatestExists("metadata")
                             THEN ReadLatest("metadata").data ELSE <<>>,
        model_of |-> ReadLatest("model").of,
        scaler_of |-> ReadLatest("scaler").of,
        after |-> 0]

\* a newly constructed AnomalyDetector calls load_model(); `after` is the
\* number of the save_model call that has just returned True, if one has
LoadFresh ==
  /\ fresh' = [LoadModel EXCEPT !.after = IF save.ret = "True" THEN save.seq ELSE 0]
  /\ fresh' # fresh

LoadIdle == [pc |-> "idle", ret |-> "none"]

LoadReturn(ret) == [pc |-> "idle", ret |-> ret]

\* load_model(): the os.path.exists test on latest_model.pkl and latest_scaler.pkl
LoadExists ==
  /\ load.pc = "exists"
  /\ load' = IF LatestExists("model") /\ LatestExists("scaler")
             THEN [load EXCEPT !.pc = "model"]
             ELSE LoadReturn("False")
  /\ UNCHANGED scorerVars

\* self.model = joblib.load(latest_model_path), which raises when the file
\* has gone since the test
LoadModelFile ==
  /\ load.pc = "model"
  /\ IF LatestExists("model")
     THEN /\ model' = ReadLatest("model").data
          /\ load' = [load EXCEPT !.pc = "scaler"]
     ELSE /\ load' = LoadReturn("False")
          /\ UNCHANGED model
  /\ UNCHANGED <<model_type, scaler, is_trained_flag, training_history>>

\* self.scaler = joblib.load(latest_scaler_path)
LoadScalerFile ==
  /\ load.pc = "scaler"
  /\ IF LatestExists("scaler")
     THEN /\ scaler' = ReadLatest("scaler").data
          /\ load' = [load EXCEPT !.pc = "metadata"]
     ELSE /\ load' = LoadReturn("False")
          /\ UNCHANGED scaler
  /\ UNCHANGED <<model_type, model, is_trained_flag, training_history>>

\* the metadata, if there is any, then self.is_trained_flag = True
LoadFlag ==
  /\ load.pc = "metadata"
  /\ training_history' = IF LatestExists("metadata")
                         THEN ReadLatest("metadata").data ELSE training_history
  /\ is_trained_flag' = TRUE
  /\ load' = LoadReturn("True")
  /\ UNCHANGED <<model_type, model, scaler>>

LoadStep ==
  \/ LoadExists
  \/ LoadModelFile
  \/ LoadScalerFile
  \/ LoadFlag

\* ------------------------------------------------------- feature extraction

\* a Python str is the sequence of its characters

\* str.count for one character
Count(str, ch) == Cardinality({i \in 1..Len(str) : str[i] = ch})

\* str.endswith
EndsWith(str, suffix) ==
  /\ Len(str) >= Len(suffix)
  /\ SubSeq(str, Len(str) - Len(suffix) + 1, Len(str)) = suffix

\* sub in str, for a sub that is not empty
Contains(str, sub) ==
  \E i \in 1..(Len(str) - Len(sub) + 1) : SubSeq(str, i, i + Len(sub) - 1) = sub

\* str.lower, on the capital letters the payloads below have
LowerChar(ch) ==
  CASE ch = "C" -> "c"
    [] ch = "S" -> "s"
    [] ch = "T" -> "t"
    [] OTHER -> ch

Lower(str) == [i \in 1..Len(str) |-> LowerChar(str[i])]

\* 1.0 if ... else 0.0
OneIf(condition) == IF condition THEN 1 ELSE 0

\* dict.get(key, default)
Get(data, key, default) == IF key \in DOMAIN data THEN data[key] ELSE default

\* the one-hot positions of _extract_features
event_types == <<"file_access", "usb_event", "process_launch", "user_behavior">>

target_size == 20

\* the one-hot encoding of the event type
OneHot(event_type) ==
  [i \in 1..Len(event_types) |-> OneIf(event_type = event_types[i])]

\* the features of an event before they are brought to the fixed size;
\* duration_seconds / 3600.0 is exact on the whole hours the payloads below have
RawFeatures(event) ==
  LET data == event.data
      file_path == Get(data, "file_path", <<>>)
      app_name == Get(data, "app_name", <<>>)
      specific ==
        CASE event.event_type = "file_access" ->
               << Len(file_path),
                  Count(file_path, "/") + Count(file_path, "\\"),
                  OneIf(EndsWith(file_path, <<".", "e", "x", "e">>)),
                  OneIf(Contains(Lower(file_path), <<"s", "y", "s", "t", "e", "m">>)) >>
          [] event.event_type = "usb_event" ->
               << OneIf(Get(data, "event_type", "None") = "insert"),
                  Len(Get(data, "device_name", <<>>)),
                  OneIf(Get(data, "vendor_id", "None") = "unknown") >>
          [] event.event_type = "process_launch" ->
               << Len(app_name),
                  OneIf(EndsWith(app_name, <<".", "e", "x", "e">>)),
                  OneIf(Contains(Lower(Get(data, "app_path", <<>>)),
                                 <<"t", "e", "m", "p">>)) >>
          [] event.event_type = "user_behavior" ->
               << Get(data, "duration_seconds", 0) \div 3600,
                  Len(Get(data, "keystroke_patterns", <<>>)),
                  Len(Get(data, "mouse_patterns", <<>>)) >>
          [] OTHER -> <<>>
  IN <<event.hour, event.weekday>> \o OneHot(event.event_type) \o specific

TruncateOnly(features) ==
  IF Len(features) > target_size THEN SubSeq(features, 1, target_size) ELSE features

\* the end of _extract_features: pad with zeros or truncate to target_size
PadOrTruncate(features) ==
  IF Len(features) < target_size
  THEN features \o [i \in 1..(target_size - Len(features)) |-> 0]
  ELSE IF Len(features) > target_size
       THEN SubSeq(features, 1, target_size)
       ELSE features

\* SentinairEngine._extract_features
ExtractFeatures(event) == PadOrTruncate(RawFeatures(event))

\* the payload fields _extract_features reads, by event type
PayloadFields(event_type) ==
  CASE event_type = "file_access" -> {"file_path"}
    [] event_type = "usb_event" -> {"event_type", "device_name", "vendor_id"}
    [] event_type = "process_launch" -> {"app_name", "app_path"}
    [] event_type = "user_behavior" ->
         {"duration_seconds", "keystroke_patterns", "mouse_patterns"}
    [] OTHER -> {}

\* two values for each payload field, of the kind the monitors report
Sample(key, i) ==
  CASE key = "file_path" ->
         IF i = 1 THEN <<"/", "t", "m", "p", "/", "a", ".", "e", "x", "e">>
                  ELSE <<"C", ":", "\\", "S", "y", "s", "t", "e", "m">>
    [] key = "event_type" -> IF i = 1 THEN "insert" ELSE "remove"
    [] key = "device_name" -> IF i = 1 THEN <<"s", "d", "b">> ELSE <<>>
    [] key = "vendor_id" -> IF i = 1 THEN "unknown" ELSE "0x0781"
    [] key = "app_name" -> IF i = 1 THEN <<"a", ".", "e", "x", "e">> ELSE <<"s", "h">>
    [] key = "app_path" ->
         IF i = 1 THEN <<"/", "T", "e", "m", "p", "/", "a">>
                  ELSE <<"/", "b", "i", "n", "/", "s", "h">>
    [] key = "duration_seconds" -> IF i = 1 THEN 0 ELSE 7200
    [] key = "keystroke_patterns" -> IF i = 1 THEN <<1>> ELSE <<1, 2>>
    [] key = "mouse_patterns" -> IF i = 1 THEN <<>> ELSE <<1, 2, 3>>

\* the payloads of one event type: any of its fields may be missing
Payloads(event_type) ==
  UNION {{[key \in present |-> Sample(key, choice[key])] :
            choice \in [present -> {1, 2}]} :
         present \in SUBSET PayloadFields(event_type)}

\* the event types _extract_features is tried on: the four it knows and the
\* one the process monitor reports besides
FeatureEventTypes ==
  {"file_access", "usb_event", "process_launch", "user_behavior",
   "process_termination"}

\* event.timestamp.hour and event.timestamp.weekday()
FeatureHours == {0, 23}
FeatureWeekdays == {0, 6}

NoFeatures == [called |-> FALSE, event_type |-> "none", present |-> {},
               raw |-> <<>>, features |-> <<>>]

\* _extract_features called on one event
ExtractFeaturesCall ==
  /\ \E event_type \in FeatureEventTypes, hour \in FeatureHours,
        weekday \in FeatureWeekdays :
       \E data \in Payloads(event_type) :
         LET event == [event_type |-> event_type, hour |-> hour,
                       weekday |-> weekday, data |-> data]
         IN feat' = [called |-> TRUE, event_type |-> event_type,
                     present |-> DOMAIN data, raw |-> RawFeatures(event),
                     features |-> ExtractFeatures(event)]
  /\ UNCHANGED <<now, alertVars, scorerVars, train, pred, diskVars, save, fresh,
                 engineOwnVars, conv, creators, accepted, encrypt_logs, behavior, usb>>

\* the scores _convert_anomaly_score is tried on, in hundredths: every 0.02
\* from below -1 to above 1
MaxScore == 55
Scores == {2 * k : k \in (0 - MaxScore)..MaxScore}

NoConversion == [called |-> FALSE, score |-> 0, confidence |-> 0,
                 earlier |-> [called |-> FALSE, score |-> 0, confidence |-> 0]]

\* _convert_anomaly_score called on one score after another
ConvertAnomalyScoreCall ==
  /\ \E score \in Scores :
       conv' = [called |-> TRUE, score |-> score,
                confidence |-> ConvertAnomalyScore(score),
                earlier |-> [called |-> conv.called, score |-> conv.score,
                             confidence |-> conv.confidence]]
  /\ UNCHANGED <<now, alertVars, scorerVars, train, pred, diskVars, save, fresh,
                 engineOwnVars, feat, creators, accepted, encrypt_logs, behavior, usb>>

\* -------------------------------------------------------------------- Engine

Threads == 1..MaxStarts

NoLoop == [pc |-> "none", batch |-> <<>>, trained |-> FALSE]

StopIdle == [pc |-> "idle", queue |-> <<>>]

\* None, for a time: the clock starts at 1
NoTime == 0

\* ----------------------------------------------------------------- monitors

\* the monitors that poll in a thread of their own
PollingMonitors == {"usb", "process", "behavior"}

\* the time.sleep at the end of each round of _monitor_loop, in seconds
PollInterval(name) ==
  CASE name = "usb" -> 2
    [] name = "process" -> 1
    [] name = "behavior" -> 30

\* self.monitor_thread.join(timeout=5)
JoinTimeout == 5

\* USBMonitor.__init__, ProcessMonitor.__init__, BehaviorMonitor.__init__
MonitorInit(name) ==
  [name |-> name, running |-> FALSE, monitor_thread |-> 0,
   loops |-> [t \in 1..MaxRuns |-> "none"], stop |-> "idle",
   stopped |-> {}, reported |-> 0, late |-> FALSE]

\* start() of a monitor that is not running, called from the thread that
\* also calls stop(): a new thread for _monitor_loop
MonitorStart ==
  /\ ~monitor.running
  /\ monitor.stop = "idle"
  /\ \E t \in DOMAIN monitor.loops :
       /\ monitor.loops[t] = "none"
       /\ \A u \in DOMAIN monitor.loops : u < t => monitor.loops[u] # "none"
       /\ monitor' = [monitor EXCEPT !.running = TRUE, !.monitor_thread = t,
                                     !.loops[t] = "test"]

\* stop() of a running monitor up to the join: self.running = False
MonitorStopCall ==
  /\ monitor.running
  /\ monitor.stop = "idle"
  /\ monitor' = [monitor EXCEPT !.running = FALSE, !.stop = "join"]

\* the join has timed out with the thread alive: the thread is in a
\* time.sleep that is longer than the timeout. A round of polling is taken
\* to be shorter than the timeout
JoinTimesOut(name, pc) == pc = "sleep" /\ PollInterval(name) > JoinTimeout

\* self.monitor_thread.join(timeout=5) returns, and stop() with it
MonitorStopReturn ==
  /\ monitor.stop = "join"
  /\ \/ monitor.loops[monitor.monitor_thread] = "done"
     \/ JoinTimesOut(monitor.name, monitor.loops[monitor.monitor_thread])
  /\ monitor' = [monitor EXCEPT !.stop = "idle",
                                !.stopped = @ \cup {monitor.monitor_thread}]

\* while self.running, tested when the thread starts and after each sleep
MonitorTest(t) ==
  /\ monitor.loops[t] = "test"
  /\ monitor' = [monitor EXCEPT
                   !.loops[t] = IF monitor.running THEN "poll" ELSE "done"]

\* one round of _monitor_loop: it finds something to report through the
\* callback, or nothing, and sleeps
MonitorPoll(t) ==
  /\ monitor.loops[t] = "poll"
  /\ \E found \in BOOLEAN :
       monitor' = [monitor EXCEPT
                     !.loops[t] = "sleep",
                     !.reported = IF found THEN t ELSE @,
                     !.late = @ \/ (found /\ t \in monitor.stopped)]

\* time.sleep returns
MonitorWake(t) ==
  /\ monitor.loops[t] = "sleep"
  /\ monitor' = [monitor EXCEPT !.loops[t] = "test"]

\* the polling threads of the monitor that are alive
PollingLoops == {t \in DOMAIN monitor.loops : monitor.loops[t] \notin {"none", "done"}}

\* -------------------------------------------------------------- USB monitor

\* the signatures _device_signature gives the devices there are
Signatures == 1..MaxDevices

\* USBMonitor.__init__ with these devices connected. `connected` is the
\* devices connected now and `initial` those connected at construction;
\* `handled` is the calls of _handle_device_event in order: the event, the
\* device, whether the call was made in the last round of the loop begun,
\* whether the callback was called, and self.running of the monitor and of
\* the engine at the time
USBMonitorInit(devices) ==
  [callback |-> FALSE, running |-> FALSE, known_devices |-> devices,
   pc |-> "none", current_signatures |-> {}, new_devices |-> {},
   removed_devices |-> {}, todo |-> {},
   connected |-> devices, initial |-> devices, changes |-> 0,
   handled |-> <<>>, engine |-> "idle", runs |-> 0]

\* a device is plugged in or pulled out
USBChange ==
  /\ usb.changes < MaxChanges
  /\ \E signature \in Signatures :
       usb' = [usb EXCEPT
                 !.connected = IF signature \in @ THEN @ \ {signature}
                               ELSE @ \cup {signature},
                 !.changes = @ + 1]

\* SentinairEngine.start up to monitor.start(): self.running = True, and
\* USBMonitor.start, which makes the thread of _monitor_loop
USBEngineStart ==
  /\ ~running
  /\ usb.engine = "idle"
  /\ usb.runs < MaxRuns
  /\ running' = TRUE
  /\ usb' = [usb EXCEPT !.running = TRUE,
                        !.pc = IF usb.running THEN @ ELSE "test",
                        !.engine = "set_callback", !.runs = @ + 1]

\* SentinairEngine.start from monitor.set_callback(self._on_event) on
USBSetCallback ==
  /\ usb.engine = "set_callback"
  /\ usb' = [usb EXCEPT !.callback = TRUE, !.engine = "idle"]
  /\ UNCHANGED running

\* SentinairEngine.stop up to the join of USBMonitor.stop: self.running =
\* False in the engine and in the monitor
USBEngineStop ==
  /\ running
  /\ usb.engine = "idle"
  /\ running' = FALSE
  /\ usb' = [usb EXCEPT !.running = FALSE, !.engine = "join"]

\* self.monitor_thread.join(timeout=5) returns: the thread has ended, a
\* round of the loop and its sleep of two seconds being shorter than the
\* timeout
USBEngineStopReturn ==
  /\ usb.engine = "join"
  /\ usb.pc = "done"
  /\ usb' = [usb EXCEPT !.engine = "idle"]
  /\ UNCHANGED running

\* while self.running, in _monitor_loop
USBTest ==
  /\ usb.pc = "test"
  /\ usb' = [usb EXCEPT !.pc = IF usb.running THEN "read" ELSE "done"]

AllDevices(current_signatures, known_devices) == current_signatures

\* new_devices = current_signatures - self.known_devices
NewDevices(current_signatures, known_devices) ==
  current_signatures \ known_devices

\* removed_devices = self.known_devices - current_signatures
RemovedDevices(current_signatures, known_devices) ==
  known_devices \ current_signatures

\* current_signatures and new_devices of a round
USBRead ==
  /\ usb.pc = "read"
  /\ usb' = [usb EXCEPT
               !.pc = "insert",
               !.current_signatures = usb.connected,
               !.new_devices = NewDevices(usb.connected, usb.known_devices),
               !.removed_devices = {},
               !.todo = NewDevices(usb.connected, usb.known_devices),
               !.handled = [i \in DOMAIN @ |-> [@[i] EXCEPT !.this_round = FALSE]]]

\* the feature vector of a USB event, which its payload determines
USBVector(event_type) == IF event_type = "insert" THEN 1 ELSE 2

\* _handle_device_event: the event goes to the callback, if there is one
HandleDeviceEvent(event_type, signature, pc) ==
  /\ usb' = [usb EXCEPT
               !.pc = pc,
               !.todo = @ \ {signature},
               !.handled = Append(@, [event_type |-> event_type,
                                      signature |-> signature,
                                      this_round |-> TRUE,
                                      called |-> usb.callback,
                                      is_running |-> usb.running,
                                      engine_running |-> running])]
  /\ IF usb.callback
     THEN /\ event_queue' = Append(event_queue,
                                   [id |-> events + 1, event_type |-> "usb_event",
                                    x |-> USBVector(event_type)])
          /\ events' = events + 1
          /\ taken' = Append(taken, 0)
     ELSE UNCHANGED <<event_queue, events, taken>>

\* for signature in new_devices, and removed_devices after the last of them
USBInsert ==
  /\ usb.pc = "insert"
  /\ IF usb.todo # {}
     THEN \E signature \in usb.todo : HandleDeviceEvent("insert", signature, "insert")
     ELSE /\ usb' = [usb EXCEPT
                       !.pc = "remove",
                       !.removed_devices =
                          RemovedDevices(usb.current_signatures, usb.known_devices),
                       !.todo =
                          RemovedDevices(usb.current_signatures, usb.known_devices)]
          /\ UNCHANGED <<event_queue, events, taken>>

\* for signature in removed_devices
USBRemove ==
  /\ usb.pc = "remove"
  /\ IF usb.todo # {}
     THEN \E signature \in usb.todo : HandleDeviceEvent("remove", signature, "remove")
     ELSE /\ usb' = [usb EXCEPT !.pc = "update"]
          /\ UNCHANGED <<event_queue, events, taken>>

\* self.known_devices = current_signatures
USBUpdate ==
  /\ usb.pc = "update"
  /\ usb' = [usb EXCEPT !.known_devices = usb.current_signatures, !.pc = "sleep"]

\* time.sleep(2) returns
USBWake ==
  /\ usb.pc = "sleep"
  /\ usb' = [usb EXCEPT !.pc = "test"]

\* --------------------------------------------------------- behavior monitor

\* the threads of keyboard.Listener and mouse.Listener
Listeners == {"keyboard", "mouse"}

\* BehaviorMonitor.__init__. `quiet` is whether last_activity_time is more
\* than idle_threshold_seconds before now; `emitted` is the calls of
\* _generate_behavior_event for the two transitions, in order
BehaviorMonitorInit ==
  [callback |-> FALSE, running |-> FALSE, is_idle |-> FALSE, quiet |-> FALSE,
   idle_periods |-> 0, loop |-> "none",
   listeners |-> [l \in Listeners |-> [pc |-> "none", was_idle |-> FALSE]],
   inputs |-> 0, emitted |-> <<>>, engine |-> "idle"]

\* SentinairEngine.start up to monitor.start(): self.running = True, and
\* BehaviorMonitor.start, which starts the thread of _monitor_loop and the
\* two listeners
BehaviorEngineStart ==
  /\ ~running
  /\ behavior.engine = "idle"
  /\ ~behavior.running
  /\ running' = TRUE
  /\ behavior' = [behavior EXCEPT
                    !.running = TRUE, !.loop = "check", !.engine = "set_callback",
                    !.listeners = [l \in Listeners |-> [pc |-> "idle", was_idle |-> FALSE]]]

\* SentinairEngine.start from monitor.set_callback(self._on_event) on
BehaviorSetCallback ==
  /\ behavior.engine = "set_callback"
  /\ behavior' = [behavior EXCEPT !.callback = TRUE, !.engine = "idle"]
  /\ UNCHANGED running

\* more than idle_threshold_seconds pass with no key and no mouse event
BehaviorQuiet ==
  /\ ~behavior.quiet
  /\ \A l \in Listeners : behavior.listeners[l].pc \in {"none", "idle"}
  /\ behavior' = [behavior EXCEPT !.quiet = TRUE]

\* the feature vector of a behavior event, which its payload determines
BehaviorVector(event_type) == IF event_type = "active_to_idle" THEN 1 ELSE 2

\* _generate_behavior_event: the event goes to the callback, if there is one
GenerateBehaviorEvent(event_type) ==
  IF behavior.callback
  THEN /\ event_queue' = Append(event_queue,
                                [id |-> events + 1, event_type |-> "user_behavior",
                                 x |-> BehaviorVector(event_type)])
       /\ events' = events + 1
       /\ taken' = Append(taken, 0)
  ELSE UNCHANGED <<event_queue, events, taken>>

\* a key or mouse event arrives and the callback of its listener calls
\* _update_activity_time: was_idle = self.is_idle
ListenerRead(l) ==
  /\ behavior.listeners[l].pc = "idle"
  /\ behavior.inputs < MaxInputs
  /\ behavior' = [behavior EXCEPT
                    !.inputs = @ + 1,
                    !.listeners[l] = [pc |-> "write", was_idle |-> behavior.is_idle]]

\* self.last_activity_time = current_time; self.is_idle = False
ListenerWrite(l) ==
  /\ behavior.listeners[l].pc = "write"
  /\ behavior' = [behavior EXCEPT
                    !.quiet = FALSE, !.is_idle = FALSE,
                    !.listeners[l].pc = IF behavior.listeners[l].was_idle
                                        THEN "handle" ELSE "idle"]

\* _handle_idle_to_active_transition: the event, if self.idle_periods holds
\* a period
ListenerHandle(l) ==
  /\ behavior.listeners[l].pc = "handle"
  /\ IF behavior.idle_periods > 0
     THEN /\ behavior' = [behavior EXCEPT
                            !.listeners[l].pc = "idle",
                            !.emitted = Append(@, "idle_to_active")]
          /\ GenerateBehaviorEvent("idle_to_active")
     ELSE /\ behavior' = [behavior EXCEPT !.listeners[l].pc = "idle"]
          /\ UNCHANGED <<event_queue, events, taken>>

\* not self.is_idle and time_since_activity > self.idle_threshold_seconds
BecomesIdle(is_idle, quiet) == ~is_idle /\ quiet

\* _monitor_loop: the test for the idle state
BehaviorCheck ==
  /\ behavior.loop = "check"
  /\ behavior' = [behavior EXCEPT
                    !.loop = IF BecomesIdle(behavior.is_idle, behavior.quiet)
                             THEN "set_idle" ELSE "sleep"]

\* self.is_idle = True
BehaviorSetIdle ==
  /\ behavior.loop = "set_idle"
  /\ behavior' = [behavior EXCEPT !.is_idle = TRUE, !.loop = "append"]

\* self.idle_periods.append(...)
BehaviorAppend ==
  /\ behavior.loop = "append"
  /\ behavior' = [behavior EXCEPT !.idle_periods = @ + 1, !.loop = "emit"]

\* self._generate_behavior_event('active_to_idle', ...)
BehaviorEmit ==
  /\ behavior.loop = "emit"
  /\ behavior' = [behavior EXCEPT !.loop = "sleep",
                                  !.emitted = Append(@, "active_to_idle")]
  /\ GenerateBehaviorEvent("active_to_idle")

\* time.sleep(30) returns, and self.running is true
BehaviorWake ==
  /\ behavior.loop = "sleep"
  /\ behavior.running
  /\ behavior' = [behavior EXCEPT !.loop = "check"]

NoTrainer == [pc |-> "none", current_time |-> NoTime, wake |-> NoTime]

\* no retraining cycle has ended yet; `stamp` is what the cycle did that last
\* assigned last_training_time
NoCycle == [outcome |-> "none", before |-> NoTime, after |-> NoTime, at |-> NoTime,
            n |-> 0, stamp |-> "none"]

\* SentinairEngine.__init__, for an engine that start() is called on at most
\* as many times as there are threads, whose database holds n events, and
\* with one of the named monitors to follow, one of the given settings of
\* encrypt_logs and one of the given sets of USB devices connected
EngineInitDevices(threads, n, names, flags, device_sets) ==
  /\ running = FALSE
  /\ event_queue = <<>>
  /\ events = 0
  /\ loops = [t \in threads |-> NoLoop]
  /\ processing_thread = 0
  /\ stop = StopIdle
  /\ fates = {}
  /\ stored = <<>>
  /\ trainers = [t \in threads |-> NoTrainer]
  /\ training_thread = 0
  /\ last_training_time = NoTime
  /\ db_events = n
  /\ cycle = NoCycle
  /\ monitor \in {MonitorInit(name) : name \in names}
  /\ taken = <<>>
  /\ feat = NoFeatures
  /\ creators = [c \in Creators |-> NoCreator]
  /\ accepted = <<>>
  /\ conv = NoConversion
  /\ encrypt_logs \in flags
  /\ usb \in {USBMonitorInit(devices) : devices \in device_sets}
  /\ behavior = BehaviorMonitorInit

\* the same, with no USB device connected
EngineInitConfigured(threads, n, names, flags) ==
  EngineInitDevices(threads, n, names, flags, {{}})

\* the same, with the default configuration: encrypt_logs is true
EngineInitWith(threads, n, names) ==
  EngineInitConfigured(threads, n, names, {TRUE})

EngineInit == EngineInitWith(Threads, 0, {"behavior"})

\* the event types the monitors report
MonitorEventTypes == {"file_access"}

\* SentinairEngine.start up to load_model, called from the thread that also
\* calls stop: a new thread for _process_events and one for _periodic_training
StartThreads ==
  /\ ~running
  /\ stop.pc = "idle"
  /\ load.pc = "idle"
  /\ \E t \in DOMAIN loops :
       /\ loops[t].pc = "none"
       /\ \A u \in DOMAIN loops : u < t => loops[u].pc # "none"
       /\ loops' = [loops EXCEPT ![t] = [NoLoop EXCEPT !.pc = "test"]]
       /\ processing_thread' = t
       /\ trainers' = [trainers EXCEPT ![t] = [NoTrainer EXCEPT !.pc = "test"]]
       /\ training_thread' = t
  /\ running' = TRUE
  /\ UNCHANGED <<last_training_time, db_events, cycle, monitor, callVars, taken>>
  /\ UNCHANGED <<event_queue, events, stop, fates, stored>>

\* SentinairEngine.start, with load_model following step by step
StartBegin ==
  /\ StartThreads
  /\ load' = [pc |-> "exists", ret |-> "none"]
  /\ UNCHANGED scorerVars

\* SentinairEngine.start, with load_model as one step
Start ==
  /\ StartThreads
  /\ IF LoadModel.ret = "True"
     THEN /\ model' = LoadModel.model
          /\ scaler' = LoadModel.scaler
          /\ training_history' = LoadModel.training_history
          /\ is_trained_flag' = TRUE
     ELSE UNCHANGED <<model, scaler, training_history, is_trained_flag>>
  /\ UNCHANGED model_type

\* SentinairEngine._on_event, called by a monitor between start and stop;
\* x names the feature vector _extract_features gives for the event
OnEventOf(event_types_reported, max_events) ==
  /\ running
  /\ events < max_events
  /\ \E etype \in event_types_reported, x \in Vectors :
       event_queue' = Append(event_queue,
                             [id |-> events + 1, event_type |-> etype, x |-> x])
  /\ events' = events + 1
  /\ taken' = Append(taken, 0)
  /\ UNCHANGED <<running, loops, processing_thread, stop, fates, stored>>
  /\ UNCHANGED <<schedVars, monitor, callVars>>

\* the same, for the events the file monitor reports
OnEventUpTo(max_events) == OnEventOf(MonitorEventTypes, max_events)

OnEvent == OnEventUpTo(MaxEvents)

\* the event types the monitors pass to the callback
ReportedEventTypes ==
  {"file_access", "usb_event", "process_launch", "process_termination",
   "user_behavior"}

\* while self.running, tested when the thread starts and after each
\* time.sleep(0.1)
LoopTest(t) ==
  /\ loops[t].pc = "test"
  /\ loops' = [loops EXCEPT ![t].pc = IF running THEN "snapshot" ELSE "done"]
  /\ UNCHANGED <<running, event_queue, events, processing_thread, stop, fates, stored>>
  /\ UNCHANGED <<schedVars, monitor, callVars, taken>>

\* the number of times the event with this id is in the queue
TimesIn(queue, id) == Cardinality({i \in 1..Len(queue) : queue[i].id = id})

NotCleared(queue) == queue

\* the queue after self.event_queue.clear()
Cleared(queue) == <<>>

\* with self.queue_lock: events_to_process = self.event_queue.copy();
\* self.event_queue.clear()
LoopSnapshot(t) ==
  /\ loops[t].pc = "snapshot"
  /\ loops' = [loops EXCEPT ![t].batch = event_queue,
                            ![t].pc = IF event_queue = <<>> THEN "test" ELSE "analyze"]
  /\ event_queue' = Cleared(event_queue)
  /\ taken' = [id \in DOMAIN taken |-> taken[id] + TimesIn(event_queue, id)]
  /\ UNCHANGED <<running, events, processing_thread, stop, fates, stored>>
  /\ UNCHANGED <<schedVars, monitor, callVars>>

\* safe_json_dumps: the JSON text of the payload of the event with this id
SafeJsonDumps(id) == [format |-> "json", of |-> id]

\* EncryptionManager.encrypt: the base64 text of the Fernet token
Encrypt(text) == [format |-> "token", of |-> text.of]

\* event_data['event_data'] as _store_event leaves it
EventData(id, encrypted) ==
  IF encrypted THEN Encrypt(SafeJsonDumps(id)) ELSE SafeJsonDumps(id)

\* the record _store_event hands to insert_event; `trained`, `alerted` and
\* `alert` are not fields of the program: whether is_trained() held in
\* _analyze_event, whether create_alert was called, and what it returned
StoredRecord(event, trained, result, alerted, alert) ==
  [id |-> event.id, event_type |-> event.event_type,
   event_data |-> EventData(event.id, encrypt_logs),
   risk_score |-> result[2], is_anomaly |-> result[1],
   trained |-> trained, alerted |-> alerted, alert |-> alert]

LoopAdvanceUnlessRejected(t, record) ==
  /\ stored' = IF record.alerted /\ record.alert = Rejected
               THEN stored ELSE Append(stored, record)
  /\ loops' = [loops EXCEPT ![t].batch = Tail(@),
                            ![t].pc = IF Len(loops[t].batch) > 1
                                      THEN "analyze" ELSE "test"]

\* _store_event hands the record to insert_event; the loop moves on to the
\* next event of the batch, or to the sleep and the next test of self.running
LoopAdvance(t, record) ==
  /\ stored' = Append(stored, record)
  /\ loops' = [loops EXCEPT ![t].batch = Tail(@),
                            ![t].pc = IF Len(loops[t].batch) > 1
                                      THEN "analyze" ELSE "test"]

AlertWantedAlways(is_anomaly, confidence) == is_anomaly

\* is_anomaly and confidence >= anomaly_threshold
AlertWanted(is_anomaly, confidence) ==
  is_anomaly /\ confidence >= AnomalyThreshold

\* _analyze_event up to the is_trained() test; for an untrained scorer the
\* event is stored as it is
LoopAnalyze(t) ==
  /\ loops[t].pc = "analyze"
  /\ IF IsTrained
     THEN /\ loops' = [loops EXCEPT ![t].pc = "predict"]
          /\ UNCHANGED stored
     ELSE LoopAdvance(t, StoredRecord(Head(loops[t].batch), FALSE, <<FALSE, 0>>,
                                       FALSE, Rejected))
  /\ UNCHANGED <<running, event_queue, events, processing_thread, stop, fates>>
  /\ UNCHANGED <<schedVars, monitor, callVars, taken>>
  /\ UNCHANGED alertVars

\* _analyze_event from predict on: the alert, then the event is stored
LoopPredict(t) ==
  /\ loops[t].pc = "predict"
  /\ LET event == Head(loops[t].batch)
         result == PredictOf(is_trained_flag, model, scaler, event.x)
     IN IF AlertWanted(result[1], result[2])
        THEN /\ CreateAlert(GenerateAlertData(event.event_type, result[2]))
             /\ LoopAdvance(t, StoredRecord(event, TRUE, result, TRUE, last_create'.ret))
        ELSE /\ UNCHANGED alertVars
             /\ LoopAdvance(t, StoredRecord(event, TRUE, result, FALSE, Rejected))
  /\ UNCHANGED <<running, event_queue, events, processing_thread, stop, fates>>
  /\ UNCHANGED <<schedVars, monitor, callVars, taken>>

LoopStep(t) ==
  \/ LoopTest(t) /\ UNCHANGED alertVars
  \/ LoopSnapshot(t) /\ UNCHANGED alertVars
  \/ LoopAnalyze(t)
  \/ LoopPredict(t)

\* SentinairEngine.stop up to the join: self.running = False, monitors stopped
StopCall ==
  /\ running
  /\ stop.pc = "idle"
  /\ running' = FALSE
  /\ stop' = [pc |-> "join", queue |-> event_queue]
  /\ UNCHANGED <<event_queue, events, loops, processing_thread, fates, stored>>
  /\ UNCHANGED <<schedVars, monitor, callVars, taken>>

StoredIds == {stored[i].id : i \in 1..Len(stored)}

\* what became of the events that were queued when stop() cleared the flag
Fate(queue) ==
  LET ids == {queue[i].id : i \in 1..Len(queue)}
  IN IF ids \subseteq StoredIds THEN "analysed"
     ELSE IF ids \cap StoredIds = {} THEN "discarded"
     ELSE "some"

\* self.processing_thread.join(timeout=5) returns: the thread has ended, or
\* five seconds have passed with the thread still in a batch
StopReturn ==
  /\ stop.pc = "join"
  /\ \/ loops[processing_thread].pc = "done"
     \/ loops[processing_thread].pc \in {"analyze", "predict"}
  /\ stop' = StopIdle
  /\ fates' = IF stop.queue = <<>> THEN fates ELSE fates \cup {Fate(stop.queue)}
  /\ UNCHANGED <<running, event_queue, events, loops, processing_thread, stored>>
  /\ UNCHANGED <<schedVars, monitor, callVars, taken>>

\* len(training_data) < min_samples, in _train_model
TooFewTrainingData(n) == n < MinTrainingSamples

\* json.loads(event['event_data']) raises for a text that is not JSON, and
\* get_recent_events skips the row
JsonLoadsRaises(text) == text.format # "json"

\* whether get_recent_events skips a row with this event_data
SkipsRow(text) == JsonLoadsRaises(text)

\* the number of rows db_manager.get_recent_events returns: of the rows the
\* database held when the process began, which were stored under the same
\* configuration, and of those stored since, all of them recent
TrainingData ==
  (IF SkipsRow(EventData(0, encrypt_logs)) THEN 0 ELSE db_events)
    + Cardinality({i \in 1..Len(stored) : ~SkipsRow(stored[i].event_data)})

\* should_train, in _periodic_training
ShouldTrain(current_time) ==
  \/ last_training_time = NoTime
  \/ current_time - last_training_time >= TrainingInterval

\* a retraining cycle has ended: time.sleep(3600)
SchedulerSleep(t) ==
  [trainers EXCEPT ![t].pc = "sleep", ![t].wake = now + Hour]

CycleRecord(t, outcome, after) ==
  [outcome |-> outcome, before |-> last_training_time, after |-> after,
   at |-> trainers[t].current_time, n |-> cycle.n + 1,
   stamp |-> IF outcome = "not_due" THEN cycle.stamp ELSE outcome]

\* while self.running, in _periodic_training: tested when the thread starts
\* and after each time.sleep(3600)
SchedulerTest(t) ==
  /\ trainers[t].pc = "test"
  /\ trainers' = [trainers EXCEPT ![t].pc = IF running THEN "check" ELSE "done"]
  /\ UNCHANGED <<training_thread, last_training_time, db_events, cycle>>
  /\ UNCHANGED <<scorerVars, train, save, files, latest>>

\* current_time = datetime.now() and should_train; when it is time to train,
\* _train_model up to the call of train: it returns at once when the
\* database holds too few events, and the features it extracts are rows of
\* 20 numbers. A second scheduler gets as far as train() only
\* while no other thread is in train() or save_model()
SchedulerCheck(t) ==
  /\ trainers[t].pc = "check"
  /\ IF ~ShouldTrain(now)
     THEN /\ trainers' = [SchedulerSleep(t) EXCEPT ![t].current_time = now]
          /\ cycle' = [CycleRecord(t, "not_due", last_training_time)
                         EXCEPT !.at = now]
          /\ UNCHANGED <<scorerVars, train>>
     ELSE IF TooFewTrainingData(TrainingData)
     THEN /\ trainers' = [trainers EXCEPT ![t].pc = "stamp", ![t].current_time = now]
          /\ UNCHANGED <<cycle, scorerVars, train>>
     ELSE /\ save.pc = "idle"
          /\ TrainBegin([n |-> TrainingData, shape |-> "2d"])
          /\ trainers' = [trainers EXCEPT ![t].pc = "train", ![t].current_time = now]
          /\ UNCHANGED cycle
  /\ UNCHANGED <<training_thread, last_training_time, db_events>>
  /\ UNCHANGED <<save, files, latest>>

\* self.anomaly_detector.save_model(), whatever train returned
SchedulerSave(t) ==
  /\ trainers[t].pc = "train"
  /\ train.pc = "idle"
  /\ SaveCall
  /\ trainers' = [trainers EXCEPT ![t].pc = "save"]
  /\ UNCHANGED <<training_thread, last_training_time, db_events, cycle>>
  /\ UNCHANGED <<scorerVars, train>>

\* what the cycle of scheduler t did
CycleOutcome(t) ==
  IF trainers[t].pc = "stamp" THEN "skipped"
  ELSE IF train.ret = "True" THEN "trained"
  ELSE "failed"

\* _train_model has returned: self.last_training_time = current_time, and
\* the thread sleeps for an hour
SchedulerStamp(t) ==
  /\ \/ trainers[t].pc = "stamp"
     \/ trainers[t].pc = "save" /\ save.pc = "idle"
  /\ last_training_time' = trainers[t].current_time
  /\ cycle' = CycleRecord(t, CycleOutcome(t), trainers[t].current_time)
  /\ trainers' = SchedulerSleep(t)
  /\ UNCHANGED <<training_thread, db_events>>
  /\ UNCHANGED <<scorerVars, train, save, files, latest>>

\* time.sleep(3600) returns
SchedulerWake(t) ==
  /\ trainers[t].pc = "sleep"
  /\ now >= trainers[t].wake
  /\ trainers' = [trainers EXCEPT ![t].pc = "test"]
  /\ UNCHANGED <<training_thread, last_training_time, db_events, cycle>>
  /\ UNCHANGED <<scorerVars, train, save, files, latest>>

\* the threads of an engine that are alive
DrainLoops == {t \in DOMAIN loops : loops[t].pc \notin {"none", "done"}}

Schedulers == {t \in DOMAIN trainers : trainers[t].pc \notin {"none", "done"}}

\* the name of the generation an earlier process trained and saved; the
\* train calls of this process are numbered from 1
SavedGen == 10

\* that generation: a fitted model and scaler of one train call
FirstModel == [kind |-> "model", gen |-> SavedGen, fitted |-> TRUE]

FirstScaler == [kind |-> "scaler", gen |-> SavedGen, fitted |-> TRUE]

\* what joblib.dump wrote for each kind when that generation was saved
SavedData(k) ==
  CASE k = "model" -> FirstModel
    [] k = "scaler" -> FirstScaler
    [] k = "metadata" -> <<SavedGen>>

SavedFile(k) == [of |-> <<FirstModel, FirstScaler>>, data |-> SavedData(k)]

\* data/models after an earlier process trained and saved one generation at
\* the clock reading 1, on a platform where os.symlink does not work and
\* save_model copied the files
DiskAfterSave ==
  /\ files = [k \in Kinds |->
                [ts \in 1..(MaxTime + 1) |-> IF ts = 1 THEN SavedFile(k) ELSE NoFile]]
  /\ latest = [k \in Kinds |->
                 [type |-> "copy", target |-> ModelPath(k, 1), content |-> SavedFile(k)]]

\* AnomalyDetector.__init__ in a new process, with either nothing in
\* data/models or the one generation an earlier process saved
DetectorInitOnDisk ==
  /\ model = NoObject
  /\ scaler = NoObject
  /\ is_trained_flag = FALSE
  /\ training_history = <<>>
  /\ train = TrainIdle
  /\ pred = PredIdle
  /\ save = SaveIdle
  /\ fresh = FreshScorer
  /\ load = LoadIdle
  /\ \/ /\ symlink_ok = TRUE
        /\ files = [k \in Kinds |-> [ts \in 1..(MaxTime + 1) |-> NoFile]]
        /\ latest = [k \in Kinds |-> Absent]
     \/ /\ symlink_ok = FALSE
        /\ DiskAfterSave

\* ----------------------------------------------------------- specifications

\* AnomalyDetector.__init__, with nothing in data/models
DetectorInit ==
  /\ model = NoObject
  /\ scaler = NoObject
  /\ is_trained_flag = FALSE
  /\ training_history = <<>>
  /\ train = TrainIdle
  /\ pred = PredIdle
  /\ save = SaveIdle
  /\ fresh = FreshScorer
  /\ load = LoadIdle
  /\ files = [k \in Kinds |-> [ts \in 1..(MaxTime + 1) |-> NoFile]]
  /\ latest = [k \in Kinds |-> Absent]

ScorerInit ==
  /\ DetectorInit
  /\ EngineInit



InitAlert ==
  /\ now = 1
  /\ AlertInit
  /\ ScorerInit
  /\ model_type = "isolation_forest"
  /\ symlink_ok = TRUE

NextAlert ==
  \/ EngineCreate
  \/ DirectCreate
  \/ Tick

SpecAlert == InitAlert /\ [][NextAlert]_vars

\* create, acknowledge, mark_false_positive and cleanup calls in any order,
\* as time passes
NextManage ==
  \/ TestCreate
  \/ Acknowledge
  \/ FalsePositive
  \/ Cleanup
  \/ Tick

SpecManage == InitAlert /\ [][NextManage]_vars

\* callbacks being registered between create calls
NextNotify ==
  \/ AddNotificationCallback
  \/ DirectCreate
  \/ Tick

SpecNotify == InitAlert /\ [][NextNotify]_vars

\* create calls on an Alert Manager whose history is full or nearly full
InitHistory ==
  /\ now = 1
  /\ \E n \in EarlierCounts : AlertInitAfter(n)
  /\ ScorerInit
  /\ model_type = "isolation_forest"
  /\ symlink_ok = TRUE

NextHistory ==
  \/ DirectCreate
  \/ Tick

SpecHistory == InitHistory /\ [][NextHistory]_vars

\* several threads in create_alert at the same time, as time passes
NextRate ==
  \/ \E c \in Creators : CreateStep(c)
  \/ Tick

SpecRate == InitAlert /\ [][NextRate]_vars

\* _calculate_severity called on one confidence after another
NextSeverity == CalculateSeverityCall

SpecSeverity == InitAlert /\ [][NextSeverity]_vars

\* _extract_features called on one event after another
NextFeatures == ExtractFeaturesCall

SpecFeatures == InitAlert /\ [][NextFeatures]_vars

\* _convert_anomaly_score called on one score after another
NextConvert == ConvertAnomalyScoreCall

SpecConvert == InitAlert /\ [][NextConvert]_vars

InitScorer ==
  /\ now = 1
  /\ AlertInit
  /\ ScorerInit
  /\ model_type \in ModelTypes
  /\ symlink_ok = TRUE

\* the retraining scheduler in train() while the drain loop is in predict()
NextScorer ==
  \/ TrainStep /\ UNCHANGED <<now, alertVars, pred, diskVars, save, fresh, engineVars>>
  \/ PredictStep /\ UNCHANGED <<now, alertVars, scorerVars, train, diskVars, save, fresh,
                               engineVars>>

SpecScorer == InitScorer /\ [][NextScorer]_vars

InitPersist ==
  /\ now = 1
  /\ AlertInit
  /\ ScorerInit
  /\ model_type = "isolation_forest"
  /\ symlink_ok \in BOOLEAN

\* train() and save_model() called one after the other, as _train_model does,
\* and a new process loading what is on disk. The clock is read by save_model
\* alone, for the timestamp in the file names, so all that matters is whether
\* two saves fall in the same second: the clock advances between calls, and
\* only past a timestamp that has been used.
NextPersist ==
  \/ /\ TrainStep
     /\ save.pc = "idle"
     /\ UNCHANGED <<now, alertVars, pred, diskVars, save, fresh, engineVars>>
  \/ /\ SaveStep
     /\ UNCHANGED <<now, alertVars, scorerVars, train, pred, symlink_ok, load, fresh,
                    engineVars>>
  \/ /\ LoadFresh
     /\ train.pc = "idle" /\ save.pc = "idle"
     /\ UNCHANGED <<now, alertVars, scorerVars, train, pred, diskVars, save, engineVars>>
  \/ Tick /\ train.pc = "idle" /\ save.pc = "idle" /\ now = save.ts

SpecPersist == InitPersist /\ [][NextPersist]_vars

InitEngine ==
  /\ now = 1
  /\ AlertInit
  /\ ScorerInit
  /\ model_type = "isolation_forest"
  /\ symlink_ok = TRUE

\* the thread that calls start and stop, the monitors, the drain loops and the
\* retraining scheduler in train()
NextEngine ==
  \/ /\ Start
     /\ UNCHANGED <<now, alertVars, train, pred, diskVars, save, fresh>>
  \/ /\ OnEvent \/ StopCall \/ StopReturn
     /\ UNCHANGED <<now, alertVars, scorerVars, train, pred, diskVars, save, fresh>>
  \/ /\ \E t \in DOMAIN loops : LoopStep(t)
     /\ UNCHANGED <<now, scorerVars, train, pred, diskVars, save, fresh>>
  \/ /\ TrainStep
     /\ processing_thread # 0
     /\ train.pc = "idle" => train.calls < MaxTrainingRounds
     /\ UNCHANGED <<now, alertVars, pred, diskVars, save, fresh, engineVars>>

SpecEngine == InitEngine /\ [][NextEngine]_vars

\* an engine on a new installation, started and stopped more than once: the
\* database holds no events and data/models no model, so the scorer stays
\* untrained
InitLifecycle ==
  /\ now = 1
  /\ AlertInit
  /\ DetectorInit
  /\ EngineInitWith(1..MaxRuns, 0, {"behavior"})
  /\ model_type = "isolation_forest"
  /\ symlink_ok = TRUE

\* the thread that calls start and stop, the monitors, the drain loops and
\* the retraining schedulers, as time passes
NextLifecycle ==
  \/ /\ Start
     /\ UNCHANGED <<now, alertVars, train, pred, diskVars, save, fresh>>
  \/ /\ \/ OnEvent /\ events < MaxReports
        \/ StopCall
        \/ StopReturn
     /\ UNCHANGED <<now, alertVars, scorerVars, train, pred, diskVars, save, fresh>>
  \/ /\ \E t \in DOMAIN loops : LoopTest(t) \/ LoopSnapshot(t) \/ LoopAnalyze(t)
     /\ UNCHANGED <<now, alertVars, scorerVars, train, pred, diskVars, save, fresh>>
  \/ /\ \E t \in DOMAIN trainers :
          SchedulerTest(t) \/ SchedulerCheck(t) \/ SchedulerStamp(t) \/ SchedulerWake(t)
     /\ UNCHANGED <<running, event_queue, events, loops, processing_thread, stop,
                    fates, stored, monitor, callVars, taken>>
     /\ UNCHANGED <<now, alertVars, scorerVars, train, pred, diskVars, save, fresh>>
  \/ Tick

SpecLifecycle == InitLifecycle /\ [][NextLifecycle]_vars

\* the drain loop of an engine whose scorer stays as start() left it: loaded
\* from data/models, or untrained. The database holds too few events for the
\* retraining scheduler ever to train
InitStore ==
  /\ now = 1
  /\ AlertInit
  /\ DetectorInitOnDisk
  /\ EngineInit
  /\ model_type = "isolation_forest"

NextStore ==
  \/ /\ Start
     /\ UNCHANGED <<now, alertVars, train, pred, diskVars, save, fresh>>
  \/ /\ OnEventUpTo(MaxAnalysed) \/ StopCall \/ StopReturn
     /\ UNCHANGED <<now, alertVars, scorerVars, train, pred, diskVars, save, fresh>>
  \/ /\ \E t \in DOMAIN loops : LoopStep(t)
     /\ UNCHANGED <<now, scorerVars, train, pred, diskVars, save, fresh>>

SpecStore == InitStore /\ [][NextStore]_vars

\* what the database holds when the process begins: nothing, or enough
\* events to train on
DatabaseCounts == {0, MinTrainingSamples}

\* an engine that is started and left running, with nothing or one saved
\* generation in data/models
InitSchedule ==
  /\ now = 1
  /\ AlertInit
  /\ DetectorInitOnDisk
  /\ \E n \in DatabaseCounts :
       EngineInitConfigured(Threads, n, {"behavior"}, {FALSE})
  /\ model_type = "isolation_forest"

\* the thread in start() and load_model(), and the retraining scheduler
\* with its train() and save_model() calls, as time passes
NextSchedule ==
  \/ /\ StartBegin
     /\ UNCHANGED <<now, alertVars, train, pred, symlink_ok, files, latest, save, fresh>>
  \/ /\ LoadStep
     /\ UNCHANGED <<now, alertVars, train, pred, symlink_ok, files, latest, save, fresh,
                    engineVars>>
  \/ /\ \E t \in DOMAIN trainers :
          \/ SchedulerTest(t)
          \/ SchedulerCheck(t)
          \/ SchedulerSave(t)
          \/ SchedulerStamp(t)
          \/ SchedulerWake(t)
     /\ UNCHANGED <<running, event_queue, events, loops, processing_thread, stop,
                    fates, stored, monitor, callVars, taken>>
     /\ UNCHANGED <<now, alertVars, pred, symlink_ok, load, fresh>>
  \/ /\ TrainScalerFit \/ TrainModelNew \/ TrainModelFit \/ TrainFinish
     /\ UNCHANGED <<now, alertVars, pred, diskVars, save, fresh, engineVars>>
  \/ /\ SaveDump \/ SaveRemove \/ SaveLink \/ SaveCopy \/ SaveFail
     /\ UNCHANGED <<now, alertVars, scorerVars, train, pred, symlink_ok, load, fresh,
                    engineVars>>
  \/ Tick

SpecSchedule == InitSchedule /\ [][NextSchedule]_vars

\* the monitors appending events and the drain loops snapshotting the queue,
\* with the engine started and stopped more than once and nothing trained
InitDrain ==
  /\ now = 1
  /\ AlertInit
  /\ DetectorInit
  /\ EngineInitWith(1..MaxRuns, 0, {"behavior"})
  /\ model_type = "isolation_forest"
  /\ symlink_ok = TRUE

NextDrain ==
  \/ /\ Start
     /\ UNCHANGED <<now, alertVars, train, pred, diskVars, save, fresh>>
  \/ /\ OnEventUpTo(MaxAnalysed) \/ StopCall \/ StopReturn
     /\ UNCHANGED <<now, alertVars, scorerVars, train, pred, diskVars, save, fresh>>
  \/ /\ \E t \in DOMAIN loops : LoopTest(t) \/ LoopSnapshot(t) \/ LoopAnalyze(t)
     /\ UNCHANGED <<now, alertVars, scorerVars, train, pred, diskVars, save, fresh>>

SpecDrain == InitDrain /\ [][NextDrain]_vars

\* the drain loop storing events and the retraining scheduler counting the
\* stored events, with and without encryption; the database holds one event
\* less than min_training_samples when the process begins
InitRetrain ==
  /\ now = 1
  /\ AlertInit
  /\ DetectorInitOnDisk
  /\ EngineInitConfigured(Threads, MinTrainingSamples - 1, {"behavior"}, BOOLEAN)
  /\ model_type = "isolation_forest"

NextRetrain ==
  \/ /\ Start
     /\ UNCHANGED <<now, alertVars, train, pred, diskVars, save, fresh>>
  \/ /\ OnEventUpTo(MaxReports)
     /\ UNCHANGED <<now, alertVars, scorerVars, train, pred, diskVars, save, fresh>>
  \/ /\ \E t \in DOMAIN loops : LoopStep(t)
     /\ UNCHANGED <<now, scorerVars, train, pred, diskVars, save, fresh>>
  \/ /\ \E t \in DOMAIN trainers :
          \/ SchedulerTest(t)
          \/ SchedulerCheck(t)
          \/ SchedulerSave(t)
          \/ SchedulerStamp(t)
          \/ SchedulerWake(t)
     /\ UNCHANGED <<running, event_queue, events, loops, processing_thread, stop,
                    fates, stored, monitor, callVars, taken>>
     /\ UNCHANGED <<now, alertVars, pred, symlink_ok, load, fresh>>
  \/ /\ TrainScalerFit \/ TrainModelNew \/ TrainModelFit \/ TrainFinish
     /\ UNCHANGED <<now, alertVars, pred, diskVars, save, fresh, engineVars>>
  \/ /\ SaveDump \/ SaveRemove \/ SaveLink \/ SaveCopy \/ SaveFail
     /\ UNCHANGED <<now, alertVars, scorerVars, train, pred, symlink_ok, load, fresh,
                    engineVars>>
  \/ Tick

SpecRetrain == InitRetrain /\ [][NextRetrain]_vars

\* the monitors reporting events of every type they have, and the drain
\* loop of an untrained engine
InitIntake ==
  /\ now = 1
  /\ AlertInit
  /\ DetectorInit
  /\ EngineInit
  /\ model_type = "isolation_forest"
  /\ symlink_ok = TRUE

NextIntake ==
  \/ /\ Start
     /\ UNCHANGED <<now, alertVars, train, pred, diskVars, save, fresh>>
  \/ /\ OnEventOf(ReportedEventTypes, MaxAnalysed) \/ StopCall \/ StopReturn
     /\ UNCHANGED <<now, alertVars, scorerVars, train, pred, diskVars, save, fresh>>
  \/ /\ \E t \in DOMAIN loops : LoopTest(t) \/ LoopSnapshot(t) \/ LoopAnalyze(t)
     /\ UNCHANGED <<now, alertVars, scorerVars, train, pred, diskVars, save, fresh>>

SpecIntake == InitIntake /\ [][NextIntake]_vars

\* the USB monitor of an engine that is started and stopped while devices
\* are plugged in and pulled out; the drain loop and the retraining
\* scheduler, which do not touch the monitor, are left out
InitUSB ==
  /\ now = 1
  /\ AlertInit
  /\ DetectorInit
  /\ EngineInitDevices(Threads, 0, {"behavior"}, {TRUE}, SUBSET Signatures)
  /\ model_type = "isolation_forest"
  /\ symlink_ok = TRUE

\* the thread that calls start and stop, the devices, and _monitor_loop
NextUSB ==
  \/ /\ USBEngineStart \/ USBSetCallback \/ USBEngineStop \/ USBEngineStopReturn
     /\ UNCHANGED <<event_queue, events, taken>>
     /\ UNCHANGED <<loops, processing_thread, stop, fates, stored, schedVars, monitor>>
     /\ UNCHANGED <<feat, conv, creators, accepted, encrypt_logs, behavior>>
     /\ UNCHANGED <<now, alertVars, scorerVars, train, pred, diskVars, save, fresh>>
  \/ /\ USBChange \/ USBTest \/ USBRead \/ USBUpdate \/ USBWake
     /\ UNCHANGED <<running, event_queue, events, taken>>
     /\ UNCHANGED <<loops, processing_thread, stop, fates, stored, schedVars, monitor>>
     /\ UNCHANGED <<feat, conv, creators, accepted, encrypt_logs, behavior>>
     /\ UNCHANGED <<now, alertVars, scorerVars, train, pred, diskVars, save, fresh>>
  \/ /\ USBInsert \/ USBRemove
     /\ UNCHANGED running
     /\ UNCHANGED <<loops, processing_thread, stop, fates, stored, schedVars, monitor>>
     /\ UNCHANGED <<feat, conv, creators, accepted, encrypt_logs, behavior>>
     /\ UNCHANGED <<now, alertVars, scorerVars, train, pred, diskVars, save, fresh>>

SpecUSB == InitUSB /\ [][NextUSB]_vars

\* the behavior monitor of an engine that is started once, with pynput
\* there: its loop and its two listeners, as keys are pressed, the mouse is
\* moved, and time passes without either
InitBehavior ==
  /\ now = 1
  /\ AlertInit
  /\ DetectorInit
  /\ EngineInit
  /\ model_type = "isolation_forest"
  /\ symlink_ok = TRUE

NextBehavior ==
  \/ /\ BehaviorEngineStart \/ BehaviorSetCallback
     /\ UNCHANGED <<event_queue, events, taken>>
     /\ UNCHANGED <<loops, processing_thread, stop, fates, stored, schedVars, monitor>>
     /\ UNCHANGED <<feat, conv, creators, accepted, encrypt_logs, usb>>
     /\ UNCHANGED <<now, alertVars, scorerVars, train, pred, diskVars, save, fresh>>
  \/ /\ \/ BehaviorQuiet
        \/ BehaviorCheck \/ BehaviorSetIdle \/ BehaviorAppend \/ BehaviorWake
        \/ \E l \in Listeners : ListenerRead(l) \/ ListenerWrite(l)
     /\ UNCHANGED <<running, event_queue, events, taken>>
     /\ UNCHANGED <<loops, processing_thread, stop, fates, stored, schedVars, monitor>>
     /\ UNCHANGED <<feat, conv, creators, accepted, encrypt_logs, usb>>
     /\ UNCHANGED <<now, alertVars, scorerVars, train, pred, diskVars, save, fresh>>
  \/ /\ \/ BehaviorEmit
        \/ \E l \in Listeners : ListenerHandle(l)
     /\ UNCHANGED running
     /\ UNCHANGED <<loops, processing_thread, stop, fates, stored, schedVars, monitor>>
     /\ UNCHANGED <<feat, conv, creators, accepted, encrypt_logs, usb>>
     /\ UNCHANGED <<now, alertVars, scorerVars, train, pred, diskVars, save, fresh>>

SpecBehavior == InitBehavior /\ [][NextBehavior]_vars

\* one of the polling monitors, started and stopped more than once
InitMonitor ==
  /\ now = 1
  /\ AlertInit
  /\ DetectorInit
  /\ EngineInitWith(Threads, 0, PollingMonitors)
  /\ model_type = "isolation_forest"
  /\ symlink_ok = TRUE

\* the thread that calls start and stop, and the polling threads
NextMonitor ==
  \/ /\ MonitorStart \/ MonitorStopCall \/ MonitorStopReturn
     /\ UNCHANGED <<running, event_queue, events, loops, processing_thread, stop,
                    fates, stored, schedVars, callVars, taken>>
     /\ UNCHANGED <<now, alertVars, scorerVars, train, pred, diskVars, save, fresh>>
  \/ /\ \E t \in DOMAIN monitor.loops :
          MonitorTest(t) \/ MonitorPoll(t) \/ MonitorWake(t)
     /\ UNCHANGED <<running, event_queue, events, loops, processing_thread, stop,
                    fates, stored, schedVars, callVars, taken>>
     /\ UNCHANGED <<now, alertVars, scorerVars, train, pred, diskVars, save, fresh>>

SpecMonitor == InitMonitor /\ [][NextMonitor]_vars

\* ------------------------------------------------------------------ claims

AllAlerts ==
  {active_alerts[i] : i \in 1..Len(active_alerts)} \cup
  {alert_history[i] : i \in 1..Len(alert_history)}

\* C1: each accepted alert has an id strictly greater than the id of every
\* alert accepted before it, in the active list and in the history, however
\* close together the create calls are.
C1_IdsStrictlyIncreasing ==
  /\ \A i, j \in 1..Len(active_alerts) :
       i < j => active_alerts[i].id < active_alerts[j].id
  /\ \A i, j \in 1..Len(alert_history) :
       i < j => alert_history[i].id < alert_history[j].id

\* C2: a create call for event type T whose severity clears the threshold is
\* rejected when max_alerts_per_hour alerts of type T were accepted in the hour
\* up to the call, and accepted when fewer were (the older ones have aged out).
C2_RateLimit ==
  (last_create.event_type # "none" /\ ShouldCreateAlert(last_create))
    => ((last_create.ret = Rejected) <=> (last_create.in_window >= MaxAlertsPerHour))

\* C2 witness: a call is accepted for a type that already has
\* max_alerts_per_hour accepted alerts, the oldest of them aged out.
C2_Witness ==
  /\ last_create.ret # Rejected
  /\ last_create.in_window < MaxAlertsPerHour
  /\ Cardinality({i \in 1..Len(alert_history) :
                    alert_history[i].event_type = last_create.event_type})
       > MaxAlertsPerHour

ScorerState == [model |-> model, scaler |-> scaler, flag |-> is_trained_flag]

\* C4 as stated: a train call that fails after the sample-count check leaves
\* model, scaler and trained flag as they were before the call, and
\* is_trained() is never true with a scaler and a model of different train calls.
C4_FailedTrainChangesNothing ==
  (train.pc = "idle" /\ train.ret = "False")
    => /\ ScorerState = train.before
       /\ IsTrained => (scaler.gen = model.gen /\ scaler.fitted /\ model.fitted)

\* C5 as stated: a predict call that passed the is_trained() test scales with
\* a fitted scaler and scores with the model of that scaler's generation.
C5_PredictOneGeneration ==
  /\ (pred.trained /\ pred.pc \in {"predict", "score", "idle"})
       => pred.scaler.fitted
  /\ (pred.trained /\ pred.pc \in {"score", "idle"} /\ pred.scaler.fitted)
       => pred.model1.gen = pred.scaler.gen
  /\ (pred.trained /\ pred.pc = "idle" /\ pred.model1.fitted)
       => pred.model2.gen = pred.scaler.gen

\* C6: train with fewer than 10 vectors returns false and leaves model, scaler
\* and trained flag as they were.
C6_ShortTrainChangesNothing ==
  (train.calls > 0 /\ train.n < 10)
    => (train.pc = "idle" /\ train.ret = "False" /\ ScorerState = train.before)

\* C6 witness: a trained scorer was given 9 vectors.
C6_Witness ==
  /\ IsTrained
  /\ train.calls > 0 /\ train.n < 10 /\ train.ret = "False"
  /\ train.before.flag

ExistingLatest == {k \in Kinds : LatestExists(k)}

\* C8 as stated: at every step of save the latest entries that exist belong
\* to one generation, a generation that was saved completely stays
\* loadable, and load never restores a model and a scaler of different generations.
C8_SaveIsAtomic ==
  /\ \A k1, k2 \in ExistingLatest : ReadLatest(k1).of = ReadLatest(k2).of
  /\ save.done > 0 => LoadModel.ret = "True"
  /\ LoadModel.ret = "True" => LoadModel.model_of = LoadModel.scaler_of
  /\ fresh.ret = "True" => fresh.model_of = fresh.scaler_of

\* C9 as stated: after save on a trained scorer has returned True, load on a fresh
\* scorer returns True, makes is_trained() true and restores the model and the
\* scaler the saving scorer had, so predict answers alike for every vector.
C9_SaveLoadRoundTrip ==
  (save.pc = "idle" /\ save.ret = "True")
    => /\ LoadModel.ret = "True"
       /\ IsTrainedOf(LoadModel.flag, LoadModel.model, LoadModel.scaler)
       /\ LoadModel.model = save.model
       /\ LoadModel.scaler = save.scaler
       /\ \A x \in Vectors :
            PredictOf(LoadModel.flag, LoadModel.model, LoadModel.scaler, x)
              = PredictOf(TRUE, save.model, save.scaler, x)
       /\ fresh.after = save.seq =>
            /\ fresh.ret = "True"
            /\ fresh.model = save.model /\ fresh.scaler = save.scaler

\* C11: the severity of a confidence c is critical for c >= 0.9, high for
\* 0.8 <= c < 0.9, medium for 0.7 <= c < 0.8 and low for c < 0.7, and a
\* confidence that is not lower never gets a lower severity.
C11_SeverityBreakpoints ==
  /\ sev.confidence >= 90 => sev.severity = "critical"
  /\ (80 <= sev.confidence /\ sev.confidence < 90) => sev.severity = "high"
  /\ (70 <= sev.confidence /\ sev.confidence < 80) => sev.severity = "medium"
  /\ sev.confidence < 70 => sev.severity = "low"
  /\ sev.earlier.confidence <= sev.confidence
       => SeverityLevel(sev.earlier.severity) <= SeverityLevel(sev.severity)

\* C11 witness: the severity was computed just below a breakpoint and then
\* exactly at it.
C11_Witness ==
  /\ sev.earlier.confidence = 89 /\ sev.earlier.severity = "high"
  /\ sev.confidence = 90 /\ sev.severity = "critical"

\* C12 as stated: list_recent(hours) holds every accepted alert whose
\* timestamp lies in the window of that many hours, and is ordered newest first.
C12_ListRecentHoldsAccepted ==
  \A hours \in RecentHours :
    LET recent == GetRecentAlerts(hours)
    IN /\ \A i \in 1..Len(alert_history) :
            alert_history[i].timestamp.at >= now - hours * Hour
              => \E j \in 1..Len(recent) : recent[j] = alert_history[i]
       /\ \A j, k \in 1..Len(recent) :
            j < k => recent[j].timestamp.at >= recent[k].timestamp.at

\* the step is a call of the named operation
IsCall(op) == last_op'.n # last_op.n /\ last_op'.op = op

\* C13 as stated: a cleanup(days) call removes from the active list exactly
\* the acknowledged alerts older than now minus days, returns how many it
\* removed, and leaves the other alerts in place.
C13_CleanupRemovesOldAcknowledged ==
  [][IsCall("cleanup") =>
       LET cutoff == now - last_op'.arg * Day
           stay == SelectSeq(active_alerts,
                     LAMBDA a : ~(a.acknowledged /\ AckTime(a).at < cutoff))
       IN /\ active_alerts' = stay
          /\ last_op'.count = Len(active_alerts) - Len(stay)]_vars

\* the alerts of a list, as a set
AlertsOf(alerts) == {alerts[i] : i \in 1..Len(alerts)}

\* C14: an accepted alert that is neither acknowledged nor marked false
\* positive stays in the active list through every create, every cleanup
\* with any cutoff, and every acknowledge and mark_false_positive call on
\* another id; no call but cleanup makes the active list lose an alert.
C14_UnacknowledgedStays ==
  [][/\ \A i \in 1..Len(active_alerts) :
          (/\ ~active_alerts[i].acknowledged
           /\ ~active_alerts[i].false_positive
           /\ (IsCall("acknowledge") \/ IsCall("mark_false_positive"))
                 => last_op'.arg # active_alerts[i].id)
            => active_alerts[i] \in AlertsOf(active_alerts')
     /\ ~IsCall("cleanup") =>
          /\ Len(active_alerts') >= Len(active_alerts)
          /\ \A i \in 1..Len(active_alerts) :
               active_alerts'[i].id = active_alerts[i].id]_vars

\* C14 witness: cleanup was called with a cutoff that an unacknowledged alert
\* of the active list is older than, while another alert was acknowledged.
C14_Witness ==
  /\ last_op.op = "cleanup" /\ last_op.arg = 0
  /\ \E i, j \in 1..Len(active_alerts) :
       /\ ~active_alerts[i].acknowledged
       /\ active_alerts[i].timestamp.at < last_op.at
       /\ active_alerts[j].acknowledged

\* every alert the Alert Manager holds, in the active list or the history
HeldAlerts == AlertsOf(active_alerts) \cup AlertsOf(alert_history)

\* C15: an acknowledge call with an id that no held alert has returns
\* failure and leaves the active list, the history, every flag and every
\* counter as they were.
C15_AcknowledgeUnknownId ==
  [][(IsCall("acknowledge") /\ \A a \in HeldAlerts : a.id # last_op'.arg)
       => /\ ~last_op'.ok
          /\ UNCHANGED <<active_alerts, alert_history, alert_stats,
                         alert_timestamps>>]_vars

\* C15 witness: acknowledge failed for an id no alert has, while the active
\* list held an alert created before the call.
C15_Witness ==
  /\ last_op.op = "acknowledge" /\ ~last_op.ok
  /\ \A a \in HeldAlerts : a.id # last_op.arg
  /\ \E a \in AlertsOf(active_alerts) : a.timestamp.at < last_op.at

C17_FalsePositiveIsAcknowledged ==
  /\ [](/\ \A a \in HeldAlerts : a.false_positive => a.acknowledged
        /\ \A f \in {"none"} \cup Severities :
             \A a \in AlertsOf(GetActiveAlerts(f)) : ~a.false_positive)
  /\ [][\A i \in 1..Len(active_alerts) :
          (i <= Len(active_alerts') /\ active_alerts'[i].id = active_alerts[i].id)
            => /\ active_alerts[i].acknowledged => active_alerts'[i].acknowledged
               /\ active_alerts[i].false_positive => active_alerts'[i].false_positive]_vars

\* C17 witness: one alert is marked false positive and list_active returns
\* another one.
C17_Witness ==
  /\ \E a \in AlertsOf(active_alerts) : a.false_positive /\ a.acknowledged
  /\ GetActiveAlerts("none") # <<>>
  /\ last_op.op = "acknowledge"

\* C18: a mark_false_positive call that succeeds raises the false-positive
\* counter by exactly 1, whether or not the alert was acknowledged before; a
\* mark_false_positive call that fails and every acknowledge call leave it.
C18_FalsePositiveCounter ==
  [][/\ (IsCall("mark_false_positive") /\ last_op'.ok)
          => alert_stats'.false_positives = alert_stats.false_positives + 1
     /\ (IsCall("mark_false_positive") /\ ~last_op'.ok)
          => alert_stats'.false_positives = alert_stats.false_positives
     /\ IsCall("acknowledge")
          => alert_stats'.false_positives = alert_stats.false_positives]_vars

\* C18 witness: the first successful mark_false_positive call was made on an
\* alert that acknowledge calls had acknowledged before.
C18_Witness ==
  /\ last_op.op = "mark_false_positive" /\ last_op.ok /\ last_op.again
  /\ alert_stats.false_positives = 1

\* an alert but for the time of its acknowledgement
Flags(alert) == [alert EXCEPT !.acknowledged_at = Missing]

\* C19: an acknowledge call on an alert that is acknowledged already returns
\* success and leaves every alert's acknowledged and false_positive flags, the
\* members of the active list and of the history, and all counters as they were.
C19_AcknowledgeIdempotent ==
  [][(/\ IsCall("acknowledge")
      /\ FirstWithId(last_op'.arg) # 0
      /\ active_alerts[FirstWithId(last_op'.arg)].acknowledged)
       => /\ last_op'.ok
          /\ Len(active_alerts') = Len(active_alerts)
          /\ \A i \in 1..Len(active_alerts) :
               Flags(active_alerts'[i]) = Flags(active_alerts[i])
          /\ UNCHANGED <<alert_history, alert_stats>>]_vars

\* C19 witness: acknowledge succeeded on an alert that was acknowledged
\* already and is not a false positive.
C19_Witness ==
  /\ last_op.op = "acknowledge" /\ last_op.ok /\ last_op.again
  /\ \E a \in AlertsOf(active_alerts) :
       a.id = last_op.arg /\ a.acknowledged /\ ~a.false_positive

\* C20: an accepted create call has called every callback registered at the
\* call exactly once with the alert, in registration order, also behind a
\* callback that raised, has returned the id, and the alert is in the active
\* list and in the history; a rejected create call has called no callback.
C20_CallbacksEachOnce ==
  creates > 0 =>
    IF last_create.ret # Rejected
    THEN /\ notified.invoked =
              [i \in 1..Len(notified.registered) |->
                 [callback |-> notified.registered[i].name, alert |-> last_create.ret]]
         /\ \E a \in AlertsOf(active_alerts) : a.id = last_create.ret
         /\ \E a \in AlertsOf(alert_history) : a.id = last_create.ret
    ELSE notified.invoked = <<>>

\* C20 witness: an alert was accepted with two callbacks registered, the
\* first of which raises.
C20_Witness ==
  /\ last_create.ret # Rejected
  /\ Len(notified.registered) = 2
  /\ notified.registered[1].raises /\ ~notified.registered[2].raises
  /\ Len(notified.invoked) = 2

\* the step is a create_alert call that was accepted
IsAccepted == creates' # creates /\ last_create'.ret # Rejected

\* C21: the history never holds more than 1000 entries; a create call
\* accepted while the history is full drops the oldest history entry and
\* appends the new alert, and every accepted create call makes the active
\* list one longer, with the alerts it held still in place.
C21_HistoryBounded ==
  /\ [](Len(alert_history) <= HistoryMaxlen)
  /\ [][IsAccepted =>
         /\ Len(alert_history) = HistoryMaxlen =>
              /\ Len(alert_history') = HistoryMaxlen
              /\ SubSeq(alert_history', 1, HistoryMaxlen - 1) = Tail(alert_history)
              /\ alert_history'[HistoryMaxlen].id = last_create'.ret
         /\ Len(active_alerts') = Len(active_alerts) + 1
         /\ SubSeq(active_alerts', 1, Len(active_alerts)) = active_alerts]_vars

\* C21 witness: alerts were accepted while the history was full, so that the
\* active list is longer than the history.
C21_Witness ==
  /\ Len(alert_history) = HistoryMaxlen
  /\ Len(active_alerts) >= HistoryMaxlen + 2
  /\ last_create.ret # Rejected
  /\ alert_history[HistoryMaxlen].id = last_create.ret

\* C22 as stated: at every moment at most one drain loop and at most one
\* retraining scheduler are alive, whatever start() and stop() calls were made.
C22_OneLoopOneScheduler ==
  /\ Cardinality(DrainLoops) <= 1
  /\ Cardinality(Schedulers) <= 1

\* C23 as stated: at most one polling loop of the monitor is alive at any
\* moment, and no loop of a run that stop() has returned for reports an event.
C23_OnePollingLoop ==
  /\ Cardinality(PollingLoops) <= 1
  /\ ~monitor.late

\* the events a drain loop has taken from the queue
TakenEvents == (1..events) \ {event_queue[i].id : i \in 1..Len(event_queue)}

\* how often the event is in the batch of a drain loop, waiting for _analyze_event
TimesPending(id) ==
  Cardinality({p \in (DOMAIN loops) \X (1..(MaxAnalysed + 1)) :
                 /\ p[2] <= Len(loops[p[1]].batch)
                 /\ loops[p[1]].batch[p[2]].id = id})

\* how often the event was handed to insert_event
TimesStored(id) == Cardinality({i \in 1..Len(stored) : stored[i].id = id})

\* C24: every event a drain loop has taken from the queue is waiting in a
\* batch or was handed to insert_event, exactly once in all: when its
\* analysis is over it was stored once, whether the scorer was untrained,
\* the event scored normal, or scored anomalous with the alert accepted or
\* rejected.
C24_TakenEventsStoredOnce ==
  /\ \A id \in TakenEvents : TimesPending(id) + TimesStored(id) = 1
  /\ \A i \in 1..Len(stored) :
       /\ stored[i].id \in TakenEvents
       /\ stored[i].alerted => (stored[i].trained /\ stored[i].is_anomaly)

\* C24 witness: events were stored after create accepted their alerts, one
\* after create rejected its alert, and none is left in a batch.
C24_Witness ==
  /\ \A t \in DOMAIN loops : loops[t].batch = <<>>
  /\ \E i, j \in 1..Len(stored) :
       /\ stored[i].alerted /\ stored[i].alert # Rejected
       /\ stored[j].alerted /\ stored[j].alert = Rejected
  /\ TakenEvents = 1..events

\* C25 as stated: a retraining cycle that was skipped for too few samples or
\* whose training failed leaves last_training_time as it was, and the
\* scheduler finds training not due only after a cycle that trained the model.
C25_StampOnlyAfterTraining ==
  /\ cycle.outcome \in {"skipped", "failed"} => cycle.after = cycle.before
  /\ cycle.outcome = "not_due" => cycle.stamp = "trained"

\* C26 as stated: _extract_features returns exactly 20 numbers for an event
\* of any type with any of its payload fields missing: the features the event
\* gives, then zeros.
C26_TwentyNumbers ==
  feat.called =>
    /\ Len(feat.features) = 20
    /\ \A i \in 1..Len(feat.features) :
         /\ feat.features[i] \in Nat
         /\ feat.features[i] = IF i <= Len(feat.raw) THEN feat.raw[i] ELSE 0

\* C26 witness: the features of a process launch whose payload has no
\* app_path were extracted.
C26_Witness ==
  /\ feat.called
  /\ feat.event_type = "process_launch"
  /\ feat.present = {"app_name"}
  /\ Len(feat.raw) < Len(feat.features)

\* C27 as stated: the confidence of a raw score s is (clip(-s, -1, 1) + 1) / 2;
\* it lies in [0, 1], is 1 for s <= -1 and 0 for s >= 1, and a score that is
\* not lower never gets a higher confidence.
C27_ConfidenceFromScore ==
  conv.called =>
    /\ 2 * conv.confidence = Clip(0 - conv.score, -100, 100) + 100
    /\ 0 <= conv.confidence /\ conv.confidence <= 100
    /\ conv.score <= -100 => conv.confidence = 100
    /\ conv.score >= 100 => conv.confidence = 0
    /\ (conv.earlier.called /\ conv.earlier.score <= conv.score)
         => conv.confidence <= conv.earlier.confidence

\* C27 witness: a score below -1 was converted, and then a score inside
\* the clipping range.
C27_Witness ==
  /\ conv.earlier.called
  /\ conv.earlier.score < -100 /\ conv.earlier.confidence = 100
  /\ conv.called /\ conv.score = 20 /\ conv.confidence = 40

\* the drain loops that are in a batch
LoopsInBatch == {t \in DOMAIN loops : loops[t].batch # <<>>}

\* C28 as stated: every event a monitor has appended is either still in the
\* queue, once, or has been copied into exactly one snapshot of the queue,
\* however the appends and the snapshots of the drain loops interleave.
C28_EachEventInOneSnapshot ==
  /\ Len(taken) = events
  /\ \A id \in 1..events : TimesIn(event_queue, id) + taken[id] = 1

\* C28 witness: two drain loops are alive, each in a batch it has taken
\* from the queue, and a further event is waiting in the queue.
C28_Witness ==
  /\ Cardinality(LoopsInBatch) >= 2
  /\ event_queue # <<>>
  /\ \A id \in 1..events : TimesIn(event_queue, id) + taken[id] = 1

\* the alerts of one event type accepted in the hour up to t, by the time
\* the rate limiting check gave them
AcceptedInHour(etype, t) ==
  Cardinality({i \in 1..Len(accepted) :
                 /\ accepted[i].event_type = etype
                 /\ t - Hour <= accepted[i].at /\ accepted[i].at <= t})

\* C29 as stated: for every event type, no rolling hour holds more than
\* max_alerts_per_hour accepted alerts of that type, also when several
\* threads are in create at the same time.
C29_RateLimitUnderConcurrency ==
  \A etype \in EventTypes, t \in 0..MaxTime :
    AcceptedInHour(etype, t) <= MaxAlertsPerHour

\* C30 as stated: whenever is_trained() is true, the model and the scaler
\* are fitted objects of one generation: of the same train call, or of the
\* one saved generation that load_model read.
C30_ModelAndScalerOfOneCall ==
  IsTrained => /\ model.gen = scaler.gen
               /\ model.fitted /\ scaler.fitted

\* C31 as stated: the files of data/models and the latest entries change
\* only in a retraining cycle whose train call returned True; a cycle that
\* skips training or whose train call fails writes nothing.
C31_SavedOnlyAfterTraining ==
  [][(files' # files \/ latest' # latest) => train.ret = "True"]_vars

\* the event records persisted so far: those the database held when the
\* process began and those the drain loop has stored since
Persisted == db_events + Len(stored)

\* C32 as stated: with encryption on or off, a retraining cycle that is due
\* when at least min_training_samples event records have been persisted
\* counts them all and trains the model.
C32_PersistedEventsAreTrainedOn ==
  [][\A t \in DOMAIN trainers :
       (/\ trainers[t].pc = "check"
        /\ trainers'[t].pc # "check"
        /\ ShouldTrain(now)
        /\ Persisted >= MinTrainingSamples)
         => trainers'[t].pc = "train"]_vars

\* the number of one-hot positions that are 1
OnesIn(positions) ==
  Cardinality({i \in 1..Len(positions) : positions[i] = 1})

\* C33 as stated: every event in the engine's queue has one of the four
\* event types of the feature extractor, so exactly one of its one-hot
\* positions is 1.
C33_QueuedEventTypesAreKnown ==
  \A i \in 1..Len(event_queue) :
    /\ event_queue[i].event_type
         \in {"file_access", "usb_event", "process_launch", "user_behavior"}
    /\ OnesIn(OneHot(event_queue[i].event_type)) = 1

\* C34 as stated: a create call whose severity is below the threshold returns
\* -1 and leaves the rate limit timestamps as they were, and every create
\* call that returns -1 leaves the active list, the history and the counters
\* as they were.
C34_RejectedCreateChangesNothing ==
  [][creates' = creates + 1 =>
       /\ SeverityLevel(last_create'.severity) < SeverityLevel(SeverityThreshold)
            => /\ last_create'.ret = Rejected
               /\ alert_timestamps' = alert_timestamps
       /\ last_create'.ret = Rejected
            => /\ active_alerts' = active_alerts
               /\ alert_history' = alert_history
               /\ alert_stats' = alert_stats]_vars

\* C34 witness: a call was rejected for its severity, for a type that has
\* an accepted alert and a timestamp in the rate limit deque.
C34_Witness ==
  /\ last_create.event_type \in EventTypes
  /\ last_create.ret = Rejected
  /\ SeverityLevel(last_create.severity) < SeverityLevel(SeverityThreshold)
  /\ alert_timestamps[last_create.event_type] # <<>>
  /\ alert_stats.alerts_by_type[last_create.event_type] >= 1

\* C35 as stated: an alert of the active list and an alert of the history
\* that have the same id have the same acknowledged and false_positive flags.
C35_ActiveAndHistoryFlagsAgree ==
  \A i \in 1..Len(active_alerts), j \in 1..Len(alert_history) :
    active_alerts[i].id = alert_history[j].id
      => /\ active_alerts[i].acknowledged = alert_history[j].acknowledged
         /\ active_alerts[i].false_positive = alert_history[j].false_positive

\* C37 as stated: the events are analysed in the order in which they were
\* queued, after any sequence of start and stop: of two analysed events the
\* one queued first was analysed first.
C37_AnalysedInQueueOrder ==
  \A i \in 1..Len(stored), j \in 1..Len(stored) :
    i < j => stored[i].id < stored[j].id

\* C36 as stated: every event a monitor detects while the monitor and the
\* engine are running is appended to the queue of the engine; none is
\* dropped for want of the callback.
C36_DetectedEventsAreQueued ==
  \A i \in 1..Len(usb.handled) :
    usb.handled[i].is_running /\ usb.handled[i].engine_running
      => usb.handled[i].called

\* the events of one device, in the order of the calls of _handle_device_event
EventsOf(signature) ==
  LET Of(event) == event.signature = signature
  IN SelectSeq(usb.handled, Of)

\* how many events of this kind the last round begun has made for the device
InRound(event_type, signature) ==
  Cardinality({i \in 1..Len(usb.handled) :
                 /\ usb.handled[i].this_round
                 /\ usb.handled[i].event_type = event_type
                 /\ usb.handled[i].signature = signature})

C39_TransitionsAlternate ==
  \A i \in 1..Len(behavior.emitted) :
    behavior.emitted[i] = IF i % 2 = 1 THEN "active_to_idle" ELSE "idle_to_active"

\* C3 as stated: at every stop() that finds events in the queue, those events
\* are all analysed or all discarded by the time stop() returns, and it is the
\* same one of the two at every stop().
C3_StopFateConsistent ==
  /\ "some" \notin fates
  /\ Cardinality(fates) <= 1

\* C7: an untrained scorer predicts (false, 0); an event analysed while the
\* scorer is untrained is stored as not anomalous with score 0 and makes no
\* create call; create is called only for an event analysed while trained,
\* scored anomalous with confidence at or above the threshold, and every
\* alert held comes from such a call.
C7_AlertsOnlyWhenTrained ==
  /\ ~IsTrained =>
       \A x \in Vectors : PredictOf(is_trained_flag, model, scaler, x) = <<FALSE, 0>>
  /\ \A i \in 1..Len(stored) :
       /\ ~stored[i].trained =>
            (~stored[i].is_anomaly /\ stored[i].risk_score = 0 /\ ~stored[i].alerted)
       /\ stored[i].alerted =>
            /\ stored[i].trained
            /\ stored[i].is_anomaly
            /\ stored[i].risk_score >= AnomalyThreshold
  /\ \A j \in 1..Len(active_alerts) :
       \E i \in 1..Len(stored) :
         stored[i].alerted /\ stored[i].alert = active_alerts[j].id

\* C7 witness: one event was analysed while the scorer was untrained, and a
\* later one while it was trained, which became an alert.
C7_Witness ==
  \E i, j \in 1..Len(stored) :
    /\ ~stored[i].trained
    /\ stored[j].trained /\ stored[j].alerted /\ stored[j].alert # Rejected
    /\ Len(active_alerts) > 0

====
